---- MODULE Spec2Model ----
(***************************************************************************)
(* Task-Management API: authentication / authorization core.               *)
(*                                                                         *)
(* Go strings are modelled as sequences of bytes/characters (each a TLA+   *)
(* string atom), Go errors as their message ("" is the nil error), the     *)
(* MongoDB "users" collection as the sequence of its documents in          *)
(* insertion (natural) order.                                              *)
(***************************************************************************)
EXTENDS Integers, Sequences, FiniteSets, TLC

VARIABLES users, ghost, pc, local, call, now, tok, req, boot, route, tasks, tcall

vars == <<users, ghost, pc, local, call, now, tok, req, boot, route, tasks, tcall>>

(***************************************************************************)
(* Bounds of the model.                                                    *)
(***************************************************************************)
MaxUsers == 3
MaxTicks == 3
MaxTasks == 2

(***************************************************************************)
(* Strings.                                                                *)
(***************************************************************************)
EmptyStr == <<>>
BadByte == "\\xFF"
ReplacementChar == "\\uFFFD"

RoleUser == <<"u", "s", "e", "r">>
RoleAdmin == <<"a", "d", "m", "i", "n">>
NoErr == ""

\* encoding/json coerces a string to valid UTF-8 when it marshals it: every
\* invalid byte becomes U+FFFD; unmarshalling returns the marshalled text.
JSONString(s) == [i \in 1..Len(s) |-> IF s[i] = BadByte THEN ReplacementChar ELSE s[i]]

ValidUTF8(s) == \A i \in 1..Len(s) : s[i] # BadByte

\* a character that takes two bytes in UTF-8
WideChar == "\\u00E9"

\* len(s) of a Go string: its number of bytes, not of characters
RECURSIVE ByteLen(_)
ByteLen(s) ==
    IF s = <<>> THEN 0
    ELSE (IF Head(s) = WideChar THEN 2 ELSE IF Head(s) = ReplacementChar THEN 3 ELSE 1)
         + ByteLen(Tail(s))

(***************************************************************************)
(* ObjectIDs: 0 is the zero ObjectID; Hex is the lower-case hex string.    *)
(***************************************************************************)
NilObjectID == 0
HexDigits == <<"0", "1", "2", "3", "4", "5", "6", "7", "8", "9", "a", "b", "c", "d", "e", "f">>
Hex(id) == <<HexDigits[(id \div 16) + 1], HexDigits[(id % 16) + 1]>>

(***************************************************************************)
(* Password service (bcrypt).  A hash embeds its salt; the digest is a      *)
(* function of salt and key, represented by the pair behind the prefix.    *)
(***************************************************************************)
BcryptPrefix == "$2a$10$"
Salts == {"salt1", "salt2"}
BcryptMaxLen == 72
ErrPasswordTooLong == "bcrypt: password length exceeds 72 bytes"

\* []byte(s): the UTF-8 bytes of a string
RECURSIVE Bytes(_)
Bytes(s) ==
    IF s = <<>> THEN <<>>
    ELSE (IF Head(s) = WideChar THEN <<"\\xC3", "\\xA9">>
          ELSE IF Head(s) = ReplacementChar THEN <<"\\xEF", "\\xBF", "\\xBD">>
          ELSE <<Head(s)>>)
         \o Bytes(Tail(s))

\* The key bcrypt derives from a password: the password's bytes followed by a
\* NUL byte, repeated cyclically over the 72 bytes of the Blowfish key
\* schedule.  The digest depends on the password through this key only.
BcryptKey(password) ==
    LET ckey == Bytes(password) \o <<"\\x00">>
    IN  [i \in 1..BcryptMaxLen |-> ckey[((i - 1) % Len(ckey)) + 1]]

HashPassword(password, salt) ==
    IF ByteLen(password) > BcryptMaxLen
    THEN [hash |-> EmptyStr, err |-> ErrPasswordTooLong]
    ELSE [hash |-> <<BcryptPrefix, salt>> \o BcryptKey(password), err |-> NoErr]

CheckPassword(hashed, plain) ==
    /\ Len(hashed) >= 2
    /\ hashed[1] = BcryptPrefix
    /\ hashed[2] \in Salts
    /\ hashed = <<BcryptPrefix, hashed[2]>> \o BcryptKey(plain)

(***************************************************************************)
(* Token service (jwt-go, HS256).                                          *)
(***************************************************************************)
Secret == "jwt-secret"
WrongSecret == "wrong-secret"
TokenTTL == 86400

HMACAlgs == {"HS256", "HS384", "HS512"}
\* signing methods registered by the JWT library
RegisteredAlgs == HMACAlgs \cup {"RS256", "ES256", "PS256", "none"}

ErrSignatureInvalid == "signature is invalid"
ErrTokenExpired == "Token is expired"
ErrAlgUnavailable == "signing method (alg) is unavailable."
ErrMalformed == "token contains an invalid number of segments"
ErrEmptyToken == "token cannot be empty"
ErrInvalidToken == "invalid token"
ErrInvalidExp == "invalid expiration claim"

\* the exp claim: a JSON number, or absent
NumExp(n) == [k |-> "num", v |-> n]
AbsentExp == [k |-> "absent", v |-> 0]

\* a claim that is not in the token (a nil interface value when it is read)
Absent == <<"<nil>">>

NoClaims == [userId |-> Absent, username |-> Absent, role |-> Absent, sub |-> Absent,
             exp |-> AbsentExp]
\* jwt.MapClaims{"userId": ..., "username": ..., "role": ..., "exp": ...}
MapClaims(userId, username, role, exp) ==
    [userId |-> userId, username |-> username, role |-> role, sub |-> Absent, exp |-> exp]
NoSig == [alg |-> "", key |-> "", claims |-> NoClaims]

\* signature of the signing input (header and claims) under a key
Sign(alg, key, claims) == [alg |-> alg, key |-> key, claims |-> claims]

\* token strings: the empty string, a malformed string, or header.claims.signature
EmptyTokenStr == [kind |-> "empty", alg |-> "", claims |-> NoClaims, sig |-> NoSig]
MalformedTokenStr == [kind |-> "malformed", alg |-> "", claims |-> NoClaims, sig |-> NoSig]

\* jwt.NewWithClaims(method, claims).SignedString(key): claims are marshalled as JSON
SignedString(alg, claims, key) ==
    LET Marshal(v) == IF v = Absent THEN Absent ELSE JSONString(v)
        c == [userId |-> Marshal(claims.userId), username |-> Marshal(claims.username),
              role |-> Marshal(claims.role), sub |-> Marshal(claims.sub), exp |-> claims.exp]
    IN [kind |-> "jwt", alg |-> alg, claims |-> c, sig |-> Sign(alg, key, c)]

\* *jwt.Token as returned to callers; nil is (isNil = TRUE)
NilToken == [isNil |-> TRUE, Valid |-> FALSE, Claims |-> NoClaims]
ParsedToken(valid, claims) == [isNil |-> FALSE, Valid |-> valid, Claims |-> claims]

\* (variant: the username is stored under the userId key)
GenerateToken_WrongKey(userID, username, role, t) ==
    IF userID = EmptyStr THEN [token |-> EmptyTokenStr, err |-> "userID cannot be empty"]
    ELSE IF username = EmptyStr THEN [token |-> EmptyTokenStr, err |-> "username cannot be empty"]
    ELSE IF role = EmptyStr THEN [token |-> EmptyTokenStr, err |-> "role cannot be empty"]
    ELSE [token |-> SignedString("HS256",
                       MapClaims(username, username, role, NumExp(t + TokenTTL)), Secret),
          err |-> NoErr]

GenerateToken(userID, username, role, t) ==
    IF userID = EmptyStr THEN [token |-> EmptyTokenStr, err |-> "userID cannot be empty"]
    ELSE IF username = EmptyStr THEN [token |-> EmptyTokenStr, err |-> "username cannot be empty"]
    ELSE IF role = EmptyStr THEN [token |-> EmptyTokenStr, err |-> "role cannot be empty"]
    ELSE [token |-> SignedString("HS256",
                       MapClaims(userID, username, role, NumExp(t + TokenTTL)), Secret),
          err |-> NoErr]

\* (variant: the signing method is not checked)
KeyFunc_AnyMethod(alg) == [key |-> Secret, err |-> NoErr]

\* the key function handed to jwt.Parse
KeyFunc(alg) ==
    IF alg \notin HMACAlgs
    THEN [key |-> "", err |-> ErrSignatureInvalid]
    ELSE [key |-> Secret, err |-> NoErr]

\* jwt.Parse(tokenStr, keyFunc) at clock reading t: segments and header are
\* decoded, the signing method is looked up, the key function is asked for the
\* key, the claims are validated (exp against t), then the signature is
\* verified; a signature error replaces the text of a claims error.
JWTParse(tokenStr, t) ==
    IF tokenStr.kind # "jwt" THEN [token |-> NilToken, err |-> ErrMalformed]
    ELSE IF tokenStr.alg \notin RegisteredAlgs THEN [token |-> NilToken, err |-> ErrAlgUnavailable]
    ELSE LET kf == KeyFunc(tokenStr.alg)
             claimsErr == IF tokenStr.claims.exp.k = "num" /\ t > tokenStr.claims.exp.v
                          THEN ErrTokenExpired ELSE NoErr
             vErr == IF tokenStr.sig # Sign(tokenStr.alg, kf.key, tokenStr.claims)
                     THEN ErrSignatureInvalid ELSE claimsErr
         IN IF kf.err # NoErr THEN [token |-> NilToken, err |-> kf.err]
            ELSE IF vErr # NoErr THEN [token |-> NilToken, err |-> vErr]
            ELSE [token |-> ParsedToken(TRUE, tokenStr.claims), err |-> NoErr]

\* (variant: a token is already rejected at the instant exp)
ValidateToken_ExpiresEarly(tokenStr, t1, t2) ==
    IF tokenStr.kind = "empty" THEN [token |-> NilToken, err |-> ErrEmptyToken]
    ELSE LET p == JWTParse(tokenStr, t1)
         IN IF p.err # NoErr THEN [token |-> NilToken, err |-> p.err]
            ELSE IF ~p.token.Valid THEN [token |-> NilToken, err |-> ErrInvalidToken]
            ELSE IF p.token.Claims.exp.k = "num"
                 THEN IF t2 >= p.token.Claims.exp.v
                      THEN [token |-> NilToken, err |-> ErrTokenExpired]
                      ELSE [token |-> p.token, err |-> NoErr]
                 ELSE [token |-> NilToken, err |-> ErrInvalidExp]

\* ValidateToken: t1 is the clock read inside jwt.Parse, t2 the later read of the
\* explicit expiry check
ValidateToken(tokenStr, t1, t2) ==
    IF tokenStr.kind = "empty" THEN [token |-> NilToken, err |-> ErrEmptyToken]
    ELSE LET p == JWTParse(tokenStr, t1)
         IN IF p.err # NoErr THEN [token |-> NilToken, err |-> p.err]
            ELSE IF ~p.token.Valid THEN [token |-> NilToken, err |-> ErrInvalidToken]
            ELSE IF p.token.Claims.exp.k = "num"
                 THEN IF t2 > p.token.Claims.exp.v
                      THEN [token |-> NilToken, err |-> ErrTokenExpired]
                      ELSE [token |-> p.token, err |-> NoErr]
                 ELSE [token |-> NilToken, err |-> ErrInvalidExp]

(***************************************************************************)
(* Authentication middleware (AuthMiddleWare.Handler).                     *)
(***************************************************************************)
StatusOK == 200
StatusUnauthorized == 401

NoContext == [set |-> FALSE, userID |-> Absent, username |-> Absent, role |-> Absent]

\* (variant: only the error is looked at, not the token's Valid mark)
Handler_ErrorOnly(tokenStr, vres) ==
    IF tokenStr.kind = "empty"
    THEN [status |-> StatusUnauthorized, message |-> "authorization header required",
          handlerRan |-> FALSE, ctx |-> NoContext]
    ELSE IF vres.err # NoErr
    THEN [status |-> StatusUnauthorized, message |-> "invalid token",
          handlerRan |-> FALSE, ctx |-> NoContext]
    ELSE [status |-> StatusOK, message |-> "",
          handlerRan |-> TRUE,
          ctx |-> [set |-> TRUE, userID |-> vres.token.Claims.sub,
                   username |-> vres.token.Claims.username, role |-> vres.token.Claims.role]]

\* (variant: the role claim is not put in the context)
Handler_DropsRole(tokenStr, vres) ==
    IF tokenStr.kind = "empty"
    THEN [status |-> StatusUnauthorized, message |-> "authorization header required",
          handlerRan |-> FALSE, ctx |-> NoContext]
    ELSE IF vres.err # NoErr \/ ~vres.token.Valid
    THEN [status |-> StatusUnauthorized, message |-> "invalid token",
          handlerRan |-> FALSE, ctx |-> NoContext]
    ELSE [status |-> StatusOK, message |-> "",
          handlerRan |-> TRUE,
          ctx |-> [set |-> TRUE, userID |-> vres.token.Claims.sub,
                   username |-> vres.token.Claims.username, role |-> Absent]]

\* vres is what jwtService.ValidateToken(tokenStr) returns; it is only
\* consulted when the header is not empty
Handler(tokenStr, vres) ==
    IF tokenStr.kind = "empty"
    THEN [status |-> StatusUnauthorized, message |-> "authorization header required",
          handlerRan |-> FALSE, ctx |-> NoContext]
    ELSE IF vres.err # NoErr \/ ~vres.token.Valid
    THEN [status |-> StatusUnauthorized, message |-> "invalid token",
          handlerRan |-> FALSE, ctx |-> NoContext]
    ELSE [status |-> StatusOK, message |-> "",
          handlerRan |-> TRUE,
          ctx |-> [set |-> TRUE, userID |-> vres.token.Claims.sub,
                   username |-> vres.token.Claims.username, role |-> vres.token.Claims.role]]

\* results a test double of domain.JWTService is set up to return
StubClaims == [MapClaims(Absent, <<"a">>, RoleAdmin, AbsentExp) EXCEPT !.sub = <<"0", "1">>]
StubResults ==
    { [token |-> ParsedToken(TRUE, StubClaims), err |-> NoErr],
      [token |-> ParsedToken(FALSE, StubClaims), err |-> NoErr],
      [token |-> NilToken, err |-> ErrInvalidToken] }

(***************************************************************************)
(* User store: the "users" collection.  The User struct carries no bson    *)
(* tags, so its ID is stored under the key "id" and the driver adds its    *)
(* own fresh "_id" (docId) to every inserted document.                     *)
(***************************************************************************)
ErrUserExists == "user already exists"
ErrUserNotFound == "user not found"
ErrInvalidUserID == "invalid user ID"
ErrInvalidCredentials == "invalid credentials"
ErrDuplicateKey == "E11000 duplicate key error"
\* any other error of the driver (connection lost, timeout)
ErrStore == "store unavailable"
\* the outcome of one access to the store: it is served (NoErr) or the driver fails
StoreFaults == {NoErr, ErrStore}

NilUser == [isNil |-> TRUE, ID |-> NilObjectID, Username |-> EmptyStr, Password |-> EmptyStr, Role |-> EmptyStr]
User(id, username, password, role) ==
    [isNil |-> FALSE, ID |-> id, Username |-> username, Password |-> password, Role |-> role]

\* Decode of a stored document into a User
Decode(doc) == User(doc.id, doc.username, doc.password, doc.role)

\* index of the first document satisfying the filter, 0 if none (mongo.ErrNoDocuments)
RECURSIVE FindFrom(_, _, _, _)
FindFrom(coll, key, value, i) ==
    IF i > Len(coll) THEN 0
    ELSE IF coll[i][key] = value THEN i
    ELSE FindFrom(coll, key, value, i + 1)

\* FindOne with the filter bson.M{key: value}
FindOne(coll, key, value) == FindFrom(coll, key, value, 1)

\* InsertOne: the driver puts oid under "_id"; only "_id" has a unique index
InsertOne(coll, user, oid, fault) ==
    IF fault # NoErr THEN [coll |-> coll, err |-> fault]
    ELSE IF \E i \in 1..Len(coll) : coll[i].docId = oid
    THEN [coll |-> coll, err |-> ErrDuplicateKey]
    ELSE [coll |-> Append(coll, [docId |-> oid, id |-> user.ID, username |-> user.Username,
                                 password |-> user.Password, role |-> user.Role]),
          err |-> NoErr]

\* CreateUser: newID is what primitive.NewObjectID() would return, oid the "_id"
CreateUser(coll, user, newID, oid, fault) ==
    LET u == IF user.ID = NilObjectID THEN [user EXCEPT !.ID = newID] ELSE user
        r == InsertOne(coll, u, oid, fault)
    IN [coll |-> r.coll, user |-> u,
        err |-> IF r.err = ErrDuplicateKey THEN ErrUserExists ELSE r.err]

GetByUsername(coll, username, fault) ==
    IF username = EmptyStr THEN [user |-> NilUser, err |-> "username cannot be empty"]
    ELSE IF fault # NoErr THEN [user |-> NilUser, err |-> fault]
    ELSE LET i == FindOne(coll, "username", username)
         IN IF i = 0 THEN [user |-> NilUser, err |-> ErrUserNotFound]
            ELSE [user |-> Decode(coll[i]), err |-> NoErr]

GetUserById(coll, userID, fault) ==
    LET i == FindOne(coll, "docId", userID)
    IN IF fault # NoErr THEN [user |-> NilUser, err |-> fault]
       ELSE IF i = 0 THEN [user |-> NilUser, err |-> ErrUserNotFound]
       ELSE [user |-> Decode(coll[i]), err |-> NoErr]

GetUserCount(coll, fault) ==
    IF fault # NoErr THEN [count |-> 0, err |-> fault]
    ELSE [count |-> Len(coll), err |-> NoErr]

UpdateRole(coll, id, role, fault) ==
    IF role = EmptyStr THEN [coll |-> coll, err |-> "role cannot be empty"]
    ELSE IF fault # NoErr THEN [coll |-> coll, err |-> fault]
    ELSE LET i == FindOne(coll, "docId", id)
         IN IF i = 0 THEN [coll |-> coll, err |-> ErrUserNotFound]
            ELSE [coll |-> [coll EXCEPT ![i].role = role], err |-> NoErr]

\* primitive.ObjectIDFromHex
HexValue(c) == CHOOSE v \in 0..15 : HexDigits[v + 1] = c
IsHexDigit(c) == \E v \in 0..15 : HexDigits[v + 1] = c
ObjectIDFromHex(s) ==
    IF Len(s) = 2 /\ IsHexDigit(s[1]) /\ IsHexDigit(s[2])
    THEN [id |-> HexValue(s[1]) * 16 + HexValue(s[2]), err |-> NoErr]
    ELSE [id |-> NilObjectID, err |-> "the provided hex string is not a valid ObjectID"]

(***************************************************************************)
(* User business logic (userUseCase).                                      *)
(***************************************************************************)
MinPasswordLen == 8

\* (variant: the result of the username lookup is not looked at)
RegisterPrepare_NoExistsCheck(coll, user, salt, fault) ==
    LET hashed == HashPassword(user.Password, salt)
    IN IF user.Username = EmptyStr
       THEN [err |-> "username cannot be empty", hashCalls |-> 0, storeCalls |-> 0, user |-> user]
       ELSE IF user.Password = EmptyStr
       THEN [err |-> "password cannot be empty", hashCalls |-> 0, storeCalls |-> 0, user |-> user]
       ELSE IF ByteLen(user.Password) < MinPasswordLen
       THEN [err |-> "password must be at least 8 characters", hashCalls |-> 0, storeCalls |-> 0, user |-> user]
       ELSE IF hashed.err # NoErr
       THEN [err |-> hashed.err, hashCalls |-> 1, storeCalls |-> 0, user |-> user]
       ELSE [err |-> NoErr, hashCalls |-> 1, storeCalls |-> 0,
             user |-> [user EXCEPT !.Password = hashed.hash, !.Role = RoleUser]]

\* (variant: the hash is computed but the user keeps the submitted password)
RegisterPrepare_KeepPlaintext(coll, user, salt, fault) ==
    LET existing == GetByUsername(coll, user.Username, fault)
        hashed == HashPassword(user.Password, salt)
    IN IF user.Username = EmptyStr
       THEN [err |-> "username cannot be empty", hashCalls |-> 0, storeCalls |-> 0, user |-> user]
       ELSE IF user.Password = EmptyStr
       THEN [err |-> "password cannot be empty", hashCalls |-> 0, storeCalls |-> 0, user |-> user]
       ELSE IF ByteLen(user.Password) < MinPasswordLen
       THEN [err |-> "password must be at least 8 characters", hashCalls |-> 0, storeCalls |-> 0, user |-> user]
       ELSE IF existing.err # NoErr /\ existing.err # ErrUserNotFound
       THEN [err |-> existing.err, hashCalls |-> 0, storeCalls |-> 1, user |-> user]
       ELSE IF ~existing.user.isNil
       THEN [err |-> ErrUserExists, hashCalls |-> 0, storeCalls |-> 1, user |-> user]
       ELSE IF hashed.err # NoErr
       THEN [err |-> hashed.err, hashCalls |-> 1, storeCalls |-> 1, user |-> user]
       ELSE [err |-> NoErr, hashCalls |-> 1, storeCalls |-> 1, user |-> [user EXCEPT !.Role = RoleUser]]

\* (variant: the role the caller supplied is kept)
RegisterPrepare_KeepsRole(coll, user, salt, fault) ==
    LET existing == GetByUsername(coll, user.Username, fault)
        hashed == HashPassword(user.Password, salt)
    IN IF user.Username = EmptyStr
       THEN [err |-> "username cannot be empty", hashCalls |-> 0, storeCalls |-> 0, user |-> user]
       ELSE IF user.Password = EmptyStr
       THEN [err |-> "password cannot be empty", hashCalls |-> 0, storeCalls |-> 0, user |-> user]
       ELSE IF ByteLen(user.Password) < MinPasswordLen
       THEN [err |-> "password must be at least 8 characters", hashCalls |-> 0, storeCalls |-> 0, user |-> user]
       ELSE IF existing.err # NoErr /\ existing.err # ErrUserNotFound
       THEN [err |-> existing.err, hashCalls |-> 0, storeCalls |-> 1, user |-> user]
       ELSE IF ~existing.user.isNil
       THEN [err |-> ErrUserExists, hashCalls |-> 0, storeCalls |-> 1, user |-> user]
       ELSE IF hashed.err # NoErr
       THEN [err |-> hashed.err, hashCalls |-> 1, storeCalls |-> 1, user |-> user]
       ELSE [err |-> NoErr, hashCalls |-> 1, storeCalls |-> 1,
             user |-> [user EXCEPT !.Password = hashed.hash]]

\* Register up to and including the default role: validation, the lookup of
\* the username, the hashing of the password.
RegisterPrepare(coll, user, salt, fault) ==
    LET existing == GetByUsername(coll, user.Username, fault)
        hashed == HashPassword(user.Password, salt)
    IN IF user.Username = EmptyStr
       THEN [err |-> "username cannot be empty", hashCalls |-> 0, storeCalls |-> 0, user |-> user]
       ELSE IF user.Password = EmptyStr
       THEN [err |-> "password cannot be empty", hashCalls |-> 0, storeCalls |-> 0, user |-> user]
       ELSE IF ByteLen(user.Password) < MinPasswordLen
       THEN [err |-> "password must be at least 8 characters", hashCalls |-> 0, storeCalls |-> 0, user |-> user]
       ELSE IF existing.err # NoErr /\ existing.err # ErrUserNotFound
       THEN [err |-> existing.err, hashCalls |-> 0, storeCalls |-> 1, user |-> user]
       ELSE IF ~existing.user.isNil
       THEN [err |-> ErrUserExists, hashCalls |-> 0, storeCalls |-> 1, user |-> user]
       ELSE IF hashed.err # NoErr
       THEN [err |-> hashed.err, hashCalls |-> 1, storeCalls |-> 1, user |-> user]
       ELSE [err |-> NoErr, hashCalls |-> 1, storeCalls |-> 1,
             user |-> [user EXCEPT !.Password = hashed.hash, !.Role = RoleUser]]

\* (variant: no user is ever made admin)
RegisterRole_NeverAdmin(user, count) == user

\* (variant: the first-user test is inverted)
RegisterRole_Inverted(user, count) ==
    IF count # 0 THEN [user EXCEPT !.Role = RoleAdmin] ELSE user

\* (variant: the first-user test is off by one)
RegisterRole_OffByOne(user, count) ==
    IF count <= 1 THEN [user EXCEPT !.Role = RoleAdmin] ELSE user

\* first user becomes admin
RegisterRole(user, count) ==
    IF count = 0 THEN [user EXCEPT !.Role = RoleAdmin] ELSE user

\* (variant: an unknown username is reported as such)
Login_ReportsNotFound(coll, credentials, t, fault) ==
    LET found == GetByUsername(coll, credentials.Username, fault)
        user == found.user
        gen == GenerateToken(Hex(user.ID), user.Username, user.Role, t)
    IN IF credentials.Username = EmptyStr \/ credentials.Password = EmptyStr
       THEN [token |-> EmptyTokenStr, user |-> NilUser, err |-> "username and password are required"]
       ELSE IF found.err # NoErr
       THEN [token |-> EmptyTokenStr, user |-> NilUser, err |-> found.err]
       ELSE IF ~CheckPassword(user.Password, credentials.Password)
       THEN [token |-> EmptyTokenStr, user |-> NilUser, err |-> ErrInvalidCredentials]
       ELSE IF gen.err # NoErr
       THEN [token |-> EmptyTokenStr, user |-> NilUser, err |-> gen.err]
       ELSE [token |-> gen.token, user |-> User(user.ID, user.Username, EmptyStr, user.Role),
             err |-> NoErr]

\* (variant: the token is issued with the default role and the stored user is
\* returned as it is)
Login_DefaultRole(coll, credentials, t, fault) ==
    LET found == GetByUsername(coll, credentials.Username, fault)
        user == found.user
        gen == GenerateToken(Hex(user.ID), user.Username, RoleUser, t)
    IN IF credentials.Username = EmptyStr \/ credentials.Password = EmptyStr
       THEN [token |-> EmptyTokenStr, user |-> NilUser, err |-> "username and password are required"]
       ELSE IF found.err # NoErr
       THEN [token |-> EmptyTokenStr, user |-> NilUser,
             err |-> IF found.err = ErrUserNotFound THEN ErrInvalidCredentials ELSE found.err]
       ELSE IF ~CheckPassword(user.Password, credentials.Password)
       THEN [token |-> EmptyTokenStr, user |-> NilUser, err |-> ErrInvalidCredentials]
       ELSE IF gen.err # NoErr
       THEN [token |-> EmptyTokenStr, user |-> NilUser, err |-> gen.err]
       ELSE [token |-> gen.token, user |-> user, err |-> NoErr]

\* Login at clock reading t
Login(coll, credentials, t, fault) ==
    LET found == GetByUsername(coll, credentials.Username, fault)
        user == found.user
        gen == GenerateToken(Hex(user.ID), user.Username, user.Role, t)
    IN IF credentials.Username = EmptyStr \/ credentials.Password = EmptyStr
       THEN [token |-> EmptyTokenStr, user |-> NilUser, err |-> "username and password are required"]
       ELSE IF found.err # NoErr
       THEN [token |-> EmptyTokenStr, user |-> NilUser,
             err |-> IF found.err = ErrUserNotFound THEN ErrInvalidCredentials ELSE found.err]
       ELSE IF ~CheckPassword(user.Password, credentials.Password)
       THEN [token |-> EmptyTokenStr, user |-> NilUser, err |-> ErrInvalidCredentials]
       ELSE IF gen.err # NoErr
       THEN [token |-> EmptyTokenStr, user |-> NilUser, err |-> gen.err]
       ELSE [token |-> gen.token, user |-> User(user.ID, user.Username, EmptyStr, user.Role),
             err |-> NoErr]

\* (variant: the role written is user)
PromoteToAdmin_SetsUser(coll, userID, fault, fault2) ==
    LET parsed == ObjectIDFromHex(userID)
        found == GetUserById(coll, parsed.id, fault)
        updated == UpdateRole(coll, parsed.id, RoleUser, fault2)
    IN IF userID = EmptyStr
       THEN [coll |-> coll, err |-> "user ID cannot be empty", storeCalls |-> 0]
       ELSE IF parsed.err # NoErr
       THEN [coll |-> coll, err |-> ErrInvalidUserID, storeCalls |-> 0]
       ELSE IF found.err # NoErr THEN [coll |-> coll, err |-> found.err, storeCalls |-> 1]
       ELSE [coll |-> updated.coll, err |-> updated.err, storeCalls |-> 2]

PromoteToAdmin(coll, userID, fault, fault2) ==
    LET parsed == ObjectIDFromHex(userID)
        found == GetUserById(coll, parsed.id, fault)
        updated == UpdateRole(coll, parsed.id, RoleAdmin, fault2)
    IN IF userID = EmptyStr
       THEN [coll |-> coll, err |-> "user ID cannot be empty", storeCalls |-> 0]
       ELSE IF parsed.err # NoErr
       THEN [coll |-> coll, err |-> ErrInvalidUserID, storeCalls |-> 0]
       ELSE IF found.err # NoErr THEN [coll |-> coll, err |-> found.err, storeCalls |-> 1]
       ELSE [coll |-> updated.coll, err |-> updated.err, storeCalls |-> 2]

(***************************************************************************)
(* Task store: the "tasks" collection.  The Task struct carries no bson    *)
(* tags either: a document holds the fields id, title, description,        *)
(* duedate and status, plus the driver's own "_id" (docId); UpdateTask     *)
(* writes the due date under the key due_date.                             *)
(***************************************************************************)
ErrTaskNotFound == "task not found"
ErrInvalidTaskID == "invalid task ID"
ErrFutureDate == "due date must be in the future"

StatusPending == <<"pending">>
StatusInProgress == <<"in_progress">>
StatusCompleted == <<"completed">>
validStatuses == {StatusPending, StatusInProgress, StatusCompleted}

\* time.Time: the zero value, or an instant in seconds
NoDate == [zero |-> TRUE, at |-> 0]
Date(t) == [zero |-> FALSE, at |-> t]

NilTask == [isNil |-> TRUE, ID |-> NilObjectID, Title |-> EmptyStr, Description |-> EmptyStr,
            DueDate |-> NoDate, Status |-> EmptyStr]
Task(id, title, description, dueDate, status) ==
    [isNil |-> FALSE, ID |-> id, Title |-> title, Description |-> description,
     DueDate |-> dueDate, Status |-> status]

\* Decode of a stored document into a Task: DueDate is read from "duedate"
DecodeTask(doc) == Task(doc.id, doc.title, doc.description, doc.duedate, doc.status)

\* taskRepository.CreateTask: newID is what primitive.NewObjectID() returns, oid the "_id"
RepoCreateTask(coll, task, newID, oid, fault) ==
    LET t == [task EXCEPT !.ID = newID]
    IN IF fault # NoErr THEN [coll |-> coll, task |-> NilTask, err |-> fault]
       ELSE [coll |-> Append(coll, [docId |-> oid, id |-> t.ID, title |-> t.Title,
                                    description |-> t.Description, duedate |-> t.DueDate,
                                    due_date |-> NoDate, status |-> t.Status]),
             task |-> t, err |-> NoErr]

RepoGetTaskByID(coll, taskID, fault) ==
    LET parsed == ObjectIDFromHex(taskID)
        i == FindOne(coll, "docId", parsed.id)
    IN IF parsed.err # NoErr THEN [task |-> NilTask, err |-> ErrInvalidTaskID]
       ELSE IF fault # NoErr THEN [task |-> NilTask, err |-> fault]
       ELSE IF i = 0 THEN [task |-> NilTask, err |-> ErrTaskNotFound]
       ELSE [task |-> DecodeTask(coll[i]), err |-> NoErr]

\* taskRepository.UpdateTask: setFields is the document after "$set" of the
\* fields the update provides
RepoUpdateTask(coll, taskID, taskUpdate, fault) ==
    LET parsed == ObjectIDFromHex(taskID)
        i == FindOne(coll, "docId", parsed.id)
        setFields ==
            [coll[i] EXCEPT
               !.title = IF taskUpdate.Title # EmptyStr THEN taskUpdate.Title ELSE @,
               !.description = IF taskUpdate.Description # EmptyStr
                               THEN taskUpdate.Description ELSE @,
               !.due_date = IF ~taskUpdate.DueDate.zero THEN taskUpdate.DueDate ELSE @,
               !.status = IF taskUpdate.Status # EmptyStr THEN taskUpdate.Status ELSE @]
    IN IF parsed.err # NoErr THEN [coll |-> coll, task |-> NilTask, err |-> ErrInvalidTaskID]
       ELSE IF /\ taskUpdate.Title = EmptyStr /\ taskUpdate.Description = EmptyStr
               /\ taskUpdate.DueDate.zero /\ taskUpdate.Status = EmptyStr
       THEN [coll |-> coll, task |-> NilTask, err |-> "no valid fields provided for update"]
       ELSE IF fault # NoErr THEN [coll |-> coll, task |-> NilTask, err |-> fault]
       ELSE IF i = 0 THEN [coll |-> coll, task |-> NilTask, err |-> ErrTaskNotFound]
       ELSE [coll |-> [coll EXCEPT ![i] = setFields],
             task |-> DecodeTask(setFields), err |-> NoErr]

\* (variant: the number of deleted documents is not looked at)
RepoDeleteTask_IgnoresCount(coll, taskID, fault) ==
    LET parsed == ObjectIDFromHex(taskID)
        i == FindOne(coll, "docId", parsed.id)
    IN IF parsed.err # NoErr THEN [coll |-> coll, err |-> ErrInvalidTaskID]
       ELSE IF fault # NoErr THEN [coll |-> coll, err |-> fault]
       ELSE IF i = 0 THEN [coll |-> coll, err |-> NoErr]
       ELSE [coll |-> [j \in 1..(Len(coll) - 1) |-> IF j < i THEN coll[j] ELSE coll[j + 1]],
             err |-> NoErr]

RepoDeleteTask(coll, taskID, fault) ==
    LET parsed == ObjectIDFromHex(taskID)
        i == FindOne(coll, "docId", parsed.id)
    IN IF parsed.err # NoErr THEN [coll |-> coll, err |-> ErrInvalidTaskID]
       ELSE IF fault # NoErr THEN [coll |-> coll, err |-> fault]
       ELSE IF i = 0 THEN [coll |-> coll, err |-> ErrTaskNotFound]
       ELSE [coll |-> [j \in 1..(Len(coll) - 1) |-> IF j < i THEN coll[j] ELSE coll[j + 1]],
             err |-> NoErr]

RepoGetAllTasks(coll, fault) ==
    IF fault # NoErr THEN [tasks |-> <<>>, err |-> fault]
    ELSE [tasks |-> [i \in 1..Len(coll) |-> DecodeTask(coll[i])], err |-> NoErr]

(***************************************************************************)
(* Task business logic (taskUseCase).  t is the clock reading of           *)
(* time.Until; storeCalls counts the calls made to the repository and      *)
(* handed is the task passed to it.                                        *)
(***************************************************************************)
Rejected(coll, err) ==
    [coll |-> coll, task |-> NilTask, err |-> err, storeCalls |-> 0, handed |-> NilTask]

\* (variant: no default for an unset status)
CreateTask_NoDefault(coll, task, t, newID, oid, fault) ==
    LET r == RepoCreateTask(coll, task, newID, oid, fault)
    IN IF task.Title = EmptyStr THEN Rejected(coll, "task title cannot be empty")
       ELSE IF task.Description = EmptyStr THEN Rejected(coll, "task description cannot be empty")
       ELSE IF task.DueDate.zero THEN Rejected(coll, "due date cannot be empty")
       ELSE IF task.DueDate.at - t < 0 THEN Rejected(coll, ErrFutureDate)
       ELSE [coll |-> r.coll, task |-> r.task, err |-> r.err, storeCalls |-> 1, handed |-> task]

CreateTask(coll, task, t, newID, oid, fault) ==
    LET withStatus == IF task.Status = EmptyStr THEN [task EXCEPT !.Status = StatusPending] ELSE task
        r == RepoCreateTask(coll, withStatus, newID, oid, fault)
    IN IF task.Title = EmptyStr THEN Rejected(coll, "task title cannot be empty")
       ELSE IF task.Description = EmptyStr THEN Rejected(coll, "task description cannot be empty")
       ELSE IF task.DueDate.zero THEN Rejected(coll, "due date cannot be empty")
       ELSE IF withStatus.DueDate.at - t < 0 THEN Rejected(coll, ErrFutureDate)
       ELSE IF withStatus.Status \notin validStatuses THEN Rejected(coll, "invalid task status")
       ELSE [coll |-> r.coll, task |-> r.task, err |-> r.err, storeCalls |-> 1,
             handed |-> withStatus]

\* (variant: the supplied status is not validated)
UpdateTask_AnyStatus(coll, id, task, t, fault) ==
    LET r == RepoUpdateTask(coll, id, task, fault)
    IN IF id = EmptyStr THEN Rejected(coll, "task ID cannot be empty")
       ELSE IF /\ task.Title = EmptyStr /\ task.Description = EmptyStr
               /\ task.DueDate.zero /\ task.Status = EmptyStr
       THEN Rejected(coll, "no valid fields provided for update")
       ELSE IF ~task.DueDate.zero /\ task.DueDate.at - t < 0 THEN Rejected(coll, ErrFutureDate)
       ELSE [coll |-> r.coll, task |-> r.task, err |-> r.err, storeCalls |-> 1, handed |-> task]

\* (variant: the check that some field is provided is left to the store)
UpdateTask_NoFieldsCheck(coll, id, task, t, fault) ==
    LET r == RepoUpdateTask(coll, id, task, fault)
    IN IF id = EmptyStr THEN Rejected(coll, "task ID cannot be empty")
       ELSE IF task.Status # EmptyStr /\ task.Status \notin validStatuses
       THEN Rejected(coll, "invalid task status")
       ELSE IF ~task.DueDate.zero /\ task.DueDate.at - t < 0 THEN Rejected(coll, ErrFutureDate)
       ELSE [coll |-> r.coll, task |-> r.task, err |-> r.err, storeCalls |-> 1, handed |-> task]

UpdateTask(coll, id, task, t, fault) ==
    LET r == RepoUpdateTask(coll, id, task, fault)
    IN IF id = EmptyStr THEN Rejected(coll, "task ID cannot be empty")
       ELSE IF /\ task.Title = EmptyStr /\ task.Description = EmptyStr
               /\ task.DueDate.zero /\ task.Status = EmptyStr
       THEN Rejected(coll, "no valid fields provided for update")
       ELSE IF task.Status # EmptyStr /\ task.Status \notin validStatuses
       THEN Rejected(coll, "invalid task status")
       ELSE IF ~task.DueDate.zero /\ task.DueDate.at - t < 0 THEN Rejected(coll, ErrFutureDate)
       ELSE [coll |-> r.coll, task |-> r.task, err |-> r.err, storeCalls |-> 1, handed |-> task]

\* (variant: the delete is sent to the store without the existence check)
DeleteTask_NoExistenceCheck(coll, id, fault, fault2) ==
    LET r == RepoDeleteTask(coll, id, fault2)
    IN IF id = EmptyStr THEN Rejected(coll, "task ID cannot be empty")
       ELSE [coll |-> r.coll, task |-> NilTask, err |-> r.err, storeCalls |-> 1, handed |-> NilTask]

\* fault is the outcome of the existence check, fault2 that of the delete
DeleteTask(coll, id, fault, fault2) ==
    LET found == RepoGetTaskByID(coll, id, fault)
        r == RepoDeleteTask(coll, id, fault2)
    IN IF id = EmptyStr THEN Rejected(coll, "task ID cannot be empty")
       ELSE IF found.err # NoErr
       THEN [coll |-> coll, task |-> NilTask, err |-> found.err, storeCalls |-> 1, handed |-> NilTask]
       ELSE [coll |-> r.coll, task |-> NilTask, err |-> r.err, storeCalls |-> 2, handed |-> NilTask]

GetTaskByID(coll, id, fault) ==
    LET r == RepoGetTaskByID(coll, id, fault)
    IN IF id = EmptyStr THEN [task |-> NilTask, err |-> "task ID cannot be empty"]
       ELSE IF r.err # NoErr THEN [task |-> NilTask, err |-> r.err]
       ELSE [task |-> r.task, err |-> NoErr]

GetAllTasks(coll, fault) == RepoGetAllTasks(coll, fault)


\* the most recent call of the task business logic and what it returned
IdleTCall ==
    [op |-> "none", arg |-> NilTask, idArg |-> EmptyStr, at |-> 0, fault |-> NoErr,
     err |-> NoErr, storeCalls |-> 0, handed |-> NilTask, task |-> NilTask]

(***************************************************************************)
(* Startup (main) and routing (SetupRouter, the admin gate, controllers).  *)
(***************************************************************************)
NoSecret == ""

\* *JWTService; nil is (isNil = TRUE)
NilService == [isNil |-> TRUE, secret |-> NoSecret]
JWTService(secret) == [isNil |-> FALSE, secret |-> secret]

\* env is the value of JWT_SECRET in the environment or .env ("" when unset)
NewJWTService(env) ==
    IF env = NoSecret THEN [service |-> NilService, err |-> "JWT_SECRET must be set in .env or environment variables"]
    ELSE [service |-> JWTService(env), err |-> NoErr]

\* main: the error of NewJWTService is discarded and the server is started
main(env) ==
    LET r == NewJWTService(env)
    IN [phase |-> "serving", env |-> env, jwtservice |-> r.service]


StatusCreated == 201
StatusBadRequest == 400
StatusForbidden == 403
StatusNotFound == 404
StatusConflict == 409
StatusInternalServerError == 500

\* (variant: any role that is present is let through)
AdminOnly_AnyRole(ctx) ==
    IF ~ctx.set
    THEN [status |-> StatusForbidden, message |-> "admin access required", next |-> FALSE]
    ELSE [status |-> StatusOK, message |-> "", next |-> TRUE]

\* AdminOnly: ctx.set says whether the key "role" exists in the context
AdminOnly(ctx) ==
    IF ~ctx.set \/ ctx.role # RoleAdmin
    THEN [status |-> StatusForbidden, message |-> "admin access required", next |-> FALSE]
    ELSE [status |-> StatusOK, message |-> "", next |-> TRUE]

\* (variant: the promote route is registered in the authenticated group)
SetupRouter_PromoteInAuthGroup ==
    { [handler |-> "Register", auth |-> FALSE, admin |-> FALSE],
      [handler |-> "Login", auth |-> FALSE, admin |-> FALSE],
      [handler |-> "GetAllTasks", auth |-> TRUE, admin |-> FALSE],
      [handler |-> "GetTaskByID", auth |-> TRUE, admin |-> FALSE],
      [handler |-> "CreateTask", auth |-> TRUE, admin |-> TRUE],
      [handler |-> "UpdateTask", auth |-> TRUE, admin |-> TRUE],
      [handler |-> "DeleteTask", auth |-> TRUE, admin |-> TRUE],
      [handler |-> "PromoteToAdmin", auth |-> TRUE, admin |-> FALSE] }

\* SetupRouter: the handler of each route and the gates in front of it
SetupRouter ==
    { [handler |-> "Register", auth |-> FALSE, admin |-> FALSE],
      [handler |-> "Login", auth |-> FALSE, admin |-> FALSE],
      [handler |-> "GetAllTasks", auth |-> TRUE, admin |-> FALSE],
      [handler |-> "GetTaskByID", auth |-> TRUE, admin |-> FALSE],
      [handler |-> "CreateTask", auth |-> TRUE, admin |-> TRUE],
      [handler |-> "UpdateTask", auth |-> TRUE, admin |-> TRUE],
      [handler |-> "DeleteTask", auth |-> TRUE, admin |-> TRUE],
      [handler |-> "PromoteToAdmin", auth |-> TRUE, admin |-> TRUE] }


\* the gates in front of a route applied to a request with the given
\* Authorization header at clock reading t.  With the nil service main builds
\* when the secret is missing, the key function's read of jwtServ.secret
\* panics (nil pointer dereference) for a well-formed HMAC token; a panic is
\* answered 500 by gin's recovery and the chain is aborted
Gates(handler, service, header, t) ==
    LET r == CHOOSE x \in SetupRouter : x.handler = handler
        panic == service.isNil /\ header.kind = "jwt" /\ header.alg \in HMACAlgs
        v == ValidateToken(header, t, t)
        h == Handler(header, [token |-> v.token, err |-> v.err])
        a == AdminOnly(h.ctx)
    IN IF ~r.auth
       THEN [next |-> TRUE, status |-> StatusOK, message |-> "", authPassed |-> FALSE,
             adminRan |-> FALSE, adminPassed |-> FALSE, ctx |-> NoContext, panic |-> FALSE]
       ELSE IF header.kind # "empty" /\ panic
       THEN [next |-> FALSE, status |-> StatusInternalServerError, message |-> "",
             authPassed |-> FALSE, adminRan |-> FALSE, adminPassed |-> FALSE,
             ctx |-> NoContext, panic |-> TRUE]
       ELSE IF ~h.handlerRan
       THEN [next |-> FALSE, status |-> h.status, message |-> h.message, authPassed |-> FALSE,
             adminRan |-> FALSE, adminPassed |-> FALSE, ctx |-> h.ctx, panic |-> FALSE]
       ELSE IF ~r.admin
       THEN [next |-> TRUE, status |-> StatusOK, message |-> "", authPassed |-> TRUE,
             adminRan |-> FALSE, adminPassed |-> FALSE, ctx |-> h.ctx, panic |-> FALSE]
       ELSE [next |-> a.next, status |-> a.status, message |-> a.message, authPassed |-> TRUE,
             adminRan |-> TRUE, adminPassed |-> a.next, ctx |-> h.ctx, panic |-> FALSE]

\* Register as one call: lookup, count and create with nothing in between
Register(coll, user, salt, newID, oid, fault, fault2, fault3) ==
    LET p == RegisterPrepare(coll, user, salt, fault)
        c == GetUserCount(coll, fault2)
        r == CreateUser(coll, RegisterRole(p.user, c.count), newID, oid, fault3)
    IN IF p.err # NoErr THEN [coll |-> coll, err |-> p.err]
       ELSE IF c.err # NoErr THEN [coll |-> coll, err |-> c.err]
       ELSE [coll |-> r.coll, err |-> r.err]

\* Controllers: what the handler answers, whether it called the business
\* logic (invoked) and the store afterwards.
ControllerRegister(coll, user, salt, newID, oid, fault, fault2, fault3) ==
    LET r == Register(coll, user, salt, newID, oid, fault, fault2, fault3)
    IN IF user.Username = EmptyStr \/ user.Password = EmptyStr
       THEN [status |-> StatusBadRequest, invoked |-> FALSE, coll |-> coll]
       ELSE [status |-> IF r.err = ErrUserExists THEN StatusConflict
                        ELSE IF r.err # NoErr THEN StatusBadRequest ELSE StatusCreated,
             invoked |-> TRUE, coll |-> r.coll]

\* with a nil service the read of jwtServ.secret in GenerateToken panics
ControllerLogin(service, coll, creds, t, fault) ==
    LET r == Login(coll, creds, t, fault)
        panic == service.isNil /\ r.err = NoErr
    IN IF creds.Username = EmptyStr \/ creds.Password = EmptyStr
       THEN [status |-> StatusBadRequest, invoked |-> FALSE, token |-> EmptyTokenStr]
       ELSE [status |-> IF panic THEN StatusInternalServerError
                        ELSE IF r.err = ErrInvalidCredentials THEN StatusUnauthorized
                        ELSE IF r.err # NoErr THEN StatusInternalServerError ELSE StatusOK,
             invoked |-> TRUE, token |-> IF panic THEN EmptyTokenStr ELSE r.token]

ControllerPromoteToAdmin(coll, userID, fault, fault2) ==
    LET r == PromoteToAdmin(coll, userID, fault, fault2)
    IN IF ObjectIDFromHex(userID).err # NoErr
       THEN [status |-> StatusBadRequest, invoked |-> FALSE, coll |-> coll]
       ELSE [status |-> IF r.err = ErrUserNotFound THEN StatusNotFound
                        ELSE IF r.err # NoErr THEN StatusBadRequest ELSE StatusOK,
             invoked |-> TRUE, coll |-> r.coll]

ControllerCreateTask(coll, task, t, newID, oid, fault) ==
    LET r == CreateTask(coll, task, t, newID, oid, fault)
    IN IF \/ task.Title = EmptyStr \/ task.Description = EmptyStr
          \/ task.Status = EmptyStr \/ task.DueDate.zero
       THEN [status |-> StatusBadRequest, invoked |-> FALSE, coll |-> coll, storeCalls |-> 0]
       ELSE [status |-> IF r.err # NoErr THEN StatusBadRequest ELSE StatusCreated,
             invoked |-> TRUE, coll |-> r.coll, storeCalls |-> r.storeCalls]

ControllerDeleteTask(coll, id, fault, fault2) ==
    LET r == DeleteTask(coll, id, fault, fault2)
    IN IF ObjectIDFromHex(id).err # NoErr
       THEN [status |-> StatusBadRequest, invoked |-> FALSE, coll |-> coll]
       ELSE [status |-> IF r.err = ErrTaskNotFound THEN StatusNotFound
                        ELSE IF r.err # NoErr THEN StatusInternalServerError ELSE StatusOK,
             invoked |-> TRUE, coll |-> r.coll]

ControllerGetAllTasks(coll, fault) ==
    [status |-> IF GetAllTasks(coll, fault).err # NoErr THEN StatusInternalServerError
                ELSE StatusOK,
     invoked |-> TRUE, coll |-> coll]

ControllerGetTaskByID(coll, id, fault) ==
    LET r == GetTaskByID(coll, id, fault)
    IN IF ObjectIDFromHex(id).err # NoErr
       THEN [status |-> StatusBadRequest, invoked |-> FALSE, coll |-> coll]
       ELSE [status |-> IF r.err = ErrTaskNotFound THEN StatusNotFound
                        ELSE IF r.err # NoErr THEN StatusInternalServerError ELSE StatusOK,
             invoked |-> TRUE, coll |-> coll]

ControllerUpdateTask(coll, id, task, t, fault) ==
    LET r == UpdateTask(coll, id, task, t, fault)
    IN IF ObjectIDFromHex(id).err # NoErr
       THEN [status |-> StatusBadRequest, invoked |-> FALSE, coll |-> coll]
       ELSE [status |-> IF r.err = ErrTaskNotFound THEN StatusNotFound
                        ELSE IF r.err # NoErr THEN StatusBadRequest ELSE StatusOK,
             invoked |-> TRUE, coll |-> r.coll]

\* the last request served by the router: the route's handler, the header, what
\* the gates decided, whether the controller ran and called the business logic,
\* and the token of the last successful login (session)
IdleRoute ==
    [seen |-> FALSE, handler |-> "", header |-> EmptyTokenStr, status |-> 0, message |-> "",
     authPassed |-> FALSE, adminRan |-> FALSE, adminPassed |-> FALSE, ctx |-> NoContext,
     panic |-> FALSE, handlerRan |-> FALSE, invoked |-> FALSE, session |-> EmptyTokenStr]

(***************************************************************************)
(* Requests.  Each process is a request handler; Register reaches the      *)
(* store three times (lookup, count, insert) and other requests may run    *)
(* between these steps.                                                    *)
(***************************************************************************)
Procs == {"p1", "p2"}

Pw(n) == [i \in 1..n |-> "p"]
GoodPassword == Pw(8)
OtherPassword == [i \in 1..8 |-> "q"]
\* four characters, eight bytes
NameA == <<"a">>
NameB == <<"b">>
CallerID == 9

RegisterInputs ==
    { User(NilObjectID, NameA, GoodPassword, EmptyStr),
      User(NilObjectID, NameB, GoodPassword, RoleAdmin),
      User(CallerID, NameB, GoodPassword, EmptyStr),
      User(NilObjectID, EmptyStr, GoodPassword, EmptyStr),
      User(NilObjectID, NameA, EmptyStr, EmptyStr),
      User(NilObjectID, NameA, Pw(7), RoleAdmin),
      User(NilObjectID, NameB, Pw(73), EmptyStr),
      User(NilObjectID, NameA, [i \in 1..4 |-> WideChar], EmptyStr) }

Credentials(username, password) == User(NilObjectID, username, password, EmptyStr)

LoginInputs ==
    { Credentials(n, pw) : n \in {EmptyStr, NameA, NameB},
                            pw \in {EmptyStr, GoodPassword, OtherPassword} }

PromoteInputs ==
    {EmptyStr, <<"z", "z">>, Hex(CallerID)}
        \cup {Hex(i) : i \in 1..MaxUsers} \cup {Hex(100 + i) : i \in 1..MaxUsers}

\* the "_id" the driver generates for the next inserted document
NewDocId(coll) == 100 + Len(coll) + 1
\* primitive.NewObjectID()
NewObjectID(coll) == Len(coll) + 1

\* the most recent call: its input, and once it has returned (done) its results
IdleCall ==
    [proc |-> "", op |-> "none", stage |-> "", arg |-> NilUser, idArg |-> EmptyStr, err |-> NoErr,
     fault |-> NoErr, storeCalls |-> 0,
     done |-> FALSE, hashCalls |-> 0, createCalls |-> 0, token |-> EmptyTokenStr, view |-> NilUser]
IdleLocal == [arg |-> NilUser, user |-> NilUser, size0 |-> 0]

NoResult == [token |-> NilToken, err |-> NoErr]

\* the token scenario: the last GenerateToken call (args, gen, issuedAt), the token
\* string being presented, the last ValidateToken result for it and the clock
\* reading (verifiedAt) of its expiry check
IdleTok ==
    [args |-> [userID |-> EmptyStr, username |-> EmptyStr, role |-> EmptyStr],
     gen |-> [token |-> EmptyTokenStr, err |-> NoErr], issuedAt |-> 0,
     origin |-> "", presented |-> EmptyTokenStr, res |-> NoResult, verifiedAt |-> 0,
     phase |-> "none", okBefore |-> FALSE, ticks |-> 0]

\* the last request that went through the authentication gate
IdleReq ==
    [seen |-> FALSE, at |-> 0, header |-> EmptyTokenStr, svc |-> "", vres |-> NoResult,
     status |-> 0, message |-> "", handlerRan |-> FALSE, ctx |-> NoContext]

Init ==
    /\ users = <<>>
    /\ ghost = <<>>
    /\ pc = [p \in Procs |-> "idle"]
    /\ local = [p \in Procs |-> IdleLocal]
    /\ call = IdleCall
    /\ now = 0
    /\ tok = IdleTok
    /\ req = IdleReq
    /\ boot = main(Secret)
    /\ route = IdleRoute
    /\ tasks = [docs |-> <<>>, minted |-> 0]
    /\ tcall = IdleTCall

InFlight == {p \in Procs : pc[p] # "idle"}

RegisterLookup(p) ==
    /\ pc[p] = "idle"
    /\ Len(users) + Cardinality(InFlight) < MaxUsers
    /\ \E user \in RegisterInputs, salt \in Salts, fault \in StoreFaults :
          LET r == RegisterPrepare(users, user, salt, fault)
              c == [IdleCall EXCEPT !.proc = p, !.op = "Register", !.stage = "lookup",
                                    !.arg = user, !.fault = fault, !.hashCalls = r.hashCalls,
                                    !.storeCalls = r.storeCalls]
          IN IF r.err # NoErr
             THEN /\ call' = [c EXCEPT !.err = r.err, !.done = TRUE]
                  /\ UNCHANGED <<pc, local>>
             ELSE /\ call' = c
                  /\ pc' = [pc EXCEPT ![p] = "count"]
                  /\ local' = [local EXCEPT ![p] = [arg |-> user, user |-> r.user,
                                                     size0 |-> Len(users)]]
    /\ UNCHANGED <<users, ghost, now, tok, req, boot, route, tasks, tcall>>

RegisterCount(p) ==
    /\ pc[p] = "count"
    /\ \E fault \in StoreFaults :
          LET r == GetUserCount(users, fault)
          IN IF r.err # NoErr
             THEN /\ call' = [IdleCall EXCEPT !.proc = p, !.op = "Register", !.stage = "count",
                                              !.arg = local[p].arg, !.fault = fault,
                                              !.err = r.err, !.done = TRUE, !.hashCalls = 1,
                                              !.storeCalls = 2]
                  /\ pc' = [pc EXCEPT ![p] = "idle"]
                  /\ local' = [local EXCEPT ![p] = IdleLocal]
             ELSE /\ local' = [local EXCEPT ![p].user = RegisterRole(local[p].user, r.count),
                                             ![p].size0 = r.count]
                  /\ pc' = [pc EXCEPT ![p] = "create"]
                  /\ UNCHANGED call
    /\ UNCHANGED <<users, ghost, now, tok, req, boot, route, tasks, tcall>>

RegisterCreate(p) ==
    /\ pc[p] = "create"
    /\ \E fault \in StoreFaults :
       LET r == CreateUser(users, local[p].user, NewObjectID(users), NewDocId(users), fault)
       IN /\ users' = r.coll
          /\ ghost' = IF r.err = NoErr
                       THEN Append(ghost, [plain |-> local[p].arg.Password,
                                           size0 |-> local[p].size0, role |-> r.user.Role])
                       ELSE ghost
          /\ call' = [IdleCall EXCEPT !.proc = p, !.op = "Register", !.stage = "create",
                                       !.arg = local[p].arg, !.fault = fault,
                                       !.err = r.err, !.done = TRUE,
                                       !.hashCalls = 1, !.createCalls = 1,
                                       !.storeCalls = 3]
    /\ pc' = [pc EXCEPT ![p] = "idle"]
    /\ local' = [local EXCEPT ![p] = IdleLocal]
    /\ UNCHANGED <<now, tok, req, boot, route, tasks, tcall>>

LoginCall(p) ==
    /\ pc[p] = "idle"
    /\ \E credentials \in LoginInputs, fault \in StoreFaults :
          LET r == Login(users, credentials, now, fault)
          IN call' = [IdleCall EXCEPT !.proc = p, !.op = "Login", !.arg = credentials,
                                      !.fault = fault,
                                      !.err = r.err, !.done = TRUE,
                                      !.token = r.token, !.view = r.user]
    /\ UNCHANGED <<users, ghost, pc, local, now, tok, req, boot, route, tasks, tcall>>

PromoteCall(p) ==
    /\ pc[p] = "idle"
    /\ \E userID \in PromoteInputs, fault \in StoreFaults, fault2 \in StoreFaults :
          LET r == PromoteToAdmin(users, userID, fault, fault2)
          IN /\ users' = r.coll
             /\ call' = [IdleCall EXCEPT !.proc = p, !.op = "PromoteToAdmin",
                                         !.idArg = userID, !.err = r.err, !.done = TRUE,
                                         !.fault = IF fault # NoErr THEN fault ELSE fault2,
                                         !.storeCalls = r.storeCalls]
    /\ UNCHANGED <<ghost, pc, local, now, tok, req, boot, route, tasks, tcall>>

\* Register calls handled concurrently: their store accesses interleave
RegisterStep(p) ==
    \/ RegisterLookup(p)
    \/ RegisterCount(p)
    \/ RegisterCreate(p)

UserStep(p) ==
    \/ RegisterStep(p)
    \/ LoginCall(p)
    \/ PromoteCall(p)

\* requests handled one after the other
Next == \E p \in Procs : (\A q \in Procs \ {p} : pc[q] = "idle") /\ UserStep(p)

Spec == Init /\ [][Next]_vars

NextConc == \E p \in Procs : RegisterStep(p)

SpecConc == Init /\ [][NextConc]_vars

(***************************************************************************)
(* Token service and authentication gate over time.                        *)
(***************************************************************************)

TokenInputs ==
    { [userID |-> u, username |-> n, role |-> r] :
        u \in {EmptyStr, Hex(1), <<BadByte, "1">>},
        n \in {EmptyStr, NameA, <<"a", BadByte>>},
        r \in {EmptyStr, RoleUser, RoleAdmin, <<BadByte>>} }

\* the clock is read again later in the same call: no earlier than t
ClockReads(t, ticks) == IF ticks < MaxTicks THEN {t, t + 1} ELSE {t}

\* tokens constructed directly with jwt.NewWithClaims(...).SignedString(key), and
\* a string that is not a token; of the signing methods a token can name in its
\* header, EdDSA is not registered
BuiltTokens(t) ==
    {MalformedTokenStr} \cup
    { SignedString(alg, MapClaims(Hex(1), NameA, role, exp), key) :
        alg \in {"HS256", "HS384", "RS256", "none", "EdDSA"}, key \in {Secret, WrongSecret},
        role \in {RoleUser, RoleAdmin},
        exp \in {AbsentExp, NumExp(t - 3600), NumExp(t + 1), NumExp(t + TokenTTL)} }

\* The service keeps no state but its secret, so one token is followed from
\* its creation through later verifications and requests.
IssueToken ==
    /\ tok.phase = "none"
    /\ \E a \in TokenInputs :
          LET gen == GenerateToken(a.userID, a.username, a.role, now)
          IN tok' = [tok EXCEPT !.args = a, !.gen = gen, !.issuedAt = now,
                                !.presented = gen.token, !.origin = "issued",
                                !.phase = "issued"]
    /\ UNCHANGED <<users, ghost, pc, local, call, now, req, boot, route, tasks, tcall>>

BuildToken ==
    /\ tok.phase = "none"
    /\ \E t \in BuiltTokens(now) : tok' = [tok EXCEPT !.presented = t, !.origin = "built", !.phase = "built"]
    /\ UNCHANGED <<users, ghost, pc, local, call, now, req, boot, route, tasks, tcall>>

VerifyToken ==
    /\ tok.phase # "none"
    /\ \E t2 \in ClockReads(now, tok.ticks) :
          LET res == ValidateToken(tok.presented, now, t2)
          IN /\ tok' = [tok EXCEPT !.res = res, !.verifiedAt = t2, !.phase = "verified",
                                    !.okBefore = tok.okBefore \/ (tok.phase = "verified" /\ tok.res.err = NoErr),
                                    !.ticks = tok.ticks + (t2 - now)]
             /\ now' = t2
    /\ UNCHANGED <<users, ghost, pc, local, call, req, boot, route, tasks, tcall>>

Tick ==
    /\ tok.ticks < MaxTicks
    /\ \E d \in {1, TokenTTL} : now' = now + d
    /\ tok' = [tok EXCEPT !.ticks = tok.ticks + 1]
    /\ UNCHANGED <<users, ghost, pc, local, call, req, boot, route, tasks, tcall>>

\* a request with the presented token (or no Authorization header) reaches the gate
AuthRequest ==
    /\ \E header \in {tok.presented, EmptyTokenStr}, svc \in {"real", "stub"} :
       \E vres \in IF svc = "real" THEN {ValidateToken(header, now, now)} ELSE StubResults :
          LET r == Handler(header, vres)
          IN req' = [seen |-> TRUE, at |-> now, header |-> header, svc |-> svc, vres |-> vres,
                     status |-> r.status, message |-> r.message,
                     handlerRan |-> r.handlerRan, ctx |-> r.ctx]
    /\ UNCHANGED <<users, ghost, pc, local, call, now, tok, boot, route, tasks, tcall>>

NextAuth ==
    \/ IssueToken
    \/ BuildToken
    \/ VerifyToken
    \/ Tick
    \/ AuthRequest

SpecAuth == Init /\ [][NextAuth]_vars

(***************************************************************************)
(* Task requests, handled one after the other.                             *)
(***************************************************************************)

\* task bodies with due dates around the clock reading t
CreateTaskInputs(t) ==
    { Task(NilObjectID, <<"t">>, <<"d">>, Date(t + 1), EmptyStr),
      Task(NilObjectID, <<"t">>, <<"d">>, Date(t), StatusCompleted),
      Task(NilObjectID, <<"t">>, <<"d">>, Date(t - 1), StatusPending),
      Task(NilObjectID, <<"t">>, <<"d">>, NoDate, EmptyStr),
      Task(NilObjectID, <<"t">>, <<"d">>, Date(t + 1), <<"done">>),
      Task(NilObjectID, EmptyStr, <<"d">>, Date(t + 1), EmptyStr),
      Task(NilObjectID, <<"t">>, EmptyStr, Date(t + 1), EmptyStr) }


\* ids of stored documents, and ids that match none: the empty id, one that is
\* not hexadecimal, and the ID field of the first task
TaskIDInputs ==
    {Hex(160 + n) : n \in 1..MaxTasks} \cup {EmptyStr, <<"z", "z">>, Hex(33)}

\* status updates of every stored task; for the first one also an update
\* without any field, one with an unknown status, due dates around the clock
\* reading t and a new title and description; and a status update sent to
\* the other ids
UpdateTaskRequests(t) ==
    { [id |-> Hex(160 + n), task |-> Task(NilObjectID, EmptyStr, EmptyStr, NoDate, status)] :
        n \in 1..MaxTasks, status \in {StatusInProgress, StatusCompleted} }
    \cup { [id |-> Hex(161), task |-> task] :
             task \in { Task(NilObjectID, EmptyStr, EmptyStr, NoDate, EmptyStr),
                        Task(NilObjectID, EmptyStr, EmptyStr, NoDate, <<"done">>),
                        Task(NilObjectID, EmptyStr, EmptyStr, Date(t), EmptyStr),
                        Task(NilObjectID, EmptyStr, EmptyStr, Date(t - 1), EmptyStr),
                        Task(NilObjectID, EmptyStr, EmptyStr, Date(t + 2), EmptyStr),
                        Task(NilObjectID, <<"u">>, <<"e">>, NoDate, EmptyStr) } }
    \cup { [id |-> id, task |-> Task(NilObjectID, EmptyStr, EmptyStr, NoDate, StatusCompleted)] :
             id \in {EmptyStr, <<"z", "z">>, Hex(33)} }

\* outcomes of successive store accesses: at most one fails
FaultSeqs(n) ==
    {[i \in 1..n |-> NoErr]} \cup {[i \in 1..n |-> IF i = k THEN ErrStore ELSE NoErr] : k \in 1..n}

Returned(op, arg, idArg, fault, r) ==
    [op |-> op, arg |-> arg, idArg |-> idArg, at |-> now, fault |-> fault,
     err |-> r.err, storeCalls |-> r.storeCalls, handed |-> r.handed, task |-> r.task]

\* the n-th task gets the ID 32 + n from primitive.NewObjectID() and its
\* document the "_id" 160 + n from the driver
CreateTaskCall ==
    /\ tasks.minted < MaxTasks
    /\ \E task \in CreateTaskInputs(now), fault \in StoreFaults :
          LET n == tasks.minted + 1
              r == CreateTask(tasks.docs, task, now, 32 + n, 160 + n, fault)
          IN /\ tasks' = [docs |-> r.coll,
                          minted |-> IF r.storeCalls > 0 THEN n ELSE tasks.minted]
             /\ tcall' = Returned("CreateTask", task, EmptyStr, fault, r)
    /\ UNCHANGED <<users, ghost, pc, local, call, now, tok, req, boot, route>>

UpdateTaskCall ==
    /\ \E u \in UpdateTaskRequests(now), fault \in StoreFaults :
          LET r == UpdateTask(tasks.docs, u.id, u.task, now, fault)
          IN /\ tasks' = [tasks EXCEPT !.docs = r.coll]
             /\ tcall' = Returned("UpdateTask", u.task, u.id, fault, r)
    /\ UNCHANGED <<users, ghost, pc, local, call, now, tok, req, boot, route>>

\* f[1] is the outcome of the existence check (the one kept in tcall.fault),
\* f[2] that of the delete
DeleteTaskCall ==
    /\ \E id \in TaskIDInputs, f \in FaultSeqs(2) :
          LET r == DeleteTask(tasks.docs, id, f[1], f[2])
          IN /\ tasks' = [tasks EXCEPT !.docs = r.coll]
             /\ tcall' = Returned("DeleteTask", NilTask, id, f[1], r)
    /\ UNCHANGED <<users, ghost, pc, local, call, now, tok, req, boot, route>>

NextTask ==
    \/ CreateTaskCall
    \/ UpdateTaskCall
    \/ DeleteTaskCall

SpecTask == Init /\ [][NextTask]_vars

\* DeleteTask calls handled concurrently: the existence check and the delete
\* are two store accesses, and other calls may run between them.  local[p]
\* holds the call of p: its id, its result once it has returned (done), and
\* whether another call for the same id had passed its check, and not yet
\* deleted, when this one had (raced).
DeleteCheck(p) ==
    /\ pc[p] = "idle"
    /\ \E id \in TaskIDInputs, fault \in StoreFaults :
          LET found == RepoGetTaskByID(tasks.docs, id, fault)
              others == {q \in Procs \ {p} : pc[q] = "delete" /\ local[q].id = id}
              returned(err) == [id |-> id, err |-> err, done |-> TRUE, raced |-> FALSE]
          IN IF id = EmptyStr
             THEN /\ local' = [local EXCEPT ![p] = returned("task ID cannot be empty")]
                  /\ pc' = pc
             ELSE IF found.err # NoErr
             THEN /\ local' = [local EXCEPT ![p] = returned(found.err)]
                  /\ pc' = pc
             ELSE /\ local' = [q \in Procs |->
                                 IF q = p THEN [id |-> id, err |-> NoErr, done |-> FALSE,
                                                raced |-> others # {}]
                                 ELSE IF q \in others THEN [local[q] EXCEPT !.raced = TRUE]
                                 ELSE local[q]]
                  /\ pc' = [pc EXCEPT ![p] = "delete"]
    /\ UNCHANGED <<users, ghost, call, now, tok, req, boot, route, tasks, tcall>>

DeleteRemove(p) ==
    /\ pc[p] = "delete"
    /\ \E fault \in StoreFaults :
          LET r == RepoDeleteTask(tasks.docs, local[p].id, fault)
          IN /\ tasks' = [tasks EXCEPT !.docs = r.coll]
             /\ local' = [local EXCEPT ![p].err = r.err, ![p].done = TRUE]
    /\ pc' = [pc EXCEPT ![p] = "idle"]
    /\ UNCHANGED <<users, ghost, call, now, tok, req, boot, route, tcall>>

NextDelete ==
    \/ CreateTaskCall
    \/ \E p \in Procs : DeleteCheck(p)
    \/ \E p \in Procs : DeleteRemove(p)

SpecDelete == Init /\ [][NextDelete]_vars

(***************************************************************************)
(* The server: main, then requests served by the router one after the      *)
(* other.                                                                  *)
(***************************************************************************)
InitMain ==
    /\ users = <<>>
    /\ ghost = <<>>
    /\ pc = [p \in Procs |-> "idle"]
    /\ local = [p \in Procs |-> IdleLocal]
    /\ call = IdleCall
    /\ now = 0
    /\ tok = IdleTok
    /\ req = IdleReq
    /\ boot \in {[phase |-> "start", env |-> env, jwtservice |-> NilService] :
                   env \in {Secret, NoSecret}}
    /\ route = IdleRoute
    /\ tasks = [docs |-> <<>>, minted |-> 0]
    /\ tcall = IdleTCall

MainStart ==
    /\ boot.phase = "start"
    /\ boot' = main(boot.env)
    /\ UNCHANGED <<users, ghost, pc, local, call, now, tok, req, route, tasks, tcall>>

\* no header, the token of the last login, a token a client kept from an
\* earlier login, a token a client made up and signed with another key, and one
\* of the service's own tokens that has expired
RequestHeaders ==
    { EmptyTokenStr, route.session, tok.presented,
      SignedString("HS256", MapClaims(Hex(1), NameA, RoleAdmin, NumExp(now + TokenTTL)), WrongSecret),
      SignedString("HS256", MapClaims(Hex(1), NameA, RoleAdmin, NumExp(now - 3600)), Secret) }


\* the record of a request: g is what the gates decided, c what the controller
\* did if it ran
Served(handler, header, g, c, session) ==
    [seen |-> TRUE, handler |-> handler, header |-> header,
     status |-> IF g.next THEN c.status ELSE g.status,
     message |-> g.message, authPassed |-> g.authPassed, adminRan |-> g.adminRan,
     adminPassed |-> g.adminPassed, ctx |-> g.ctx, panic |-> g.panic,
     handlerRan |-> g.next, invoked |-> g.next /\ c.invoked, session |-> session]

ServeRegister ==
    /\ boot.phase = "serving"
    /\ Len(users) < MaxUsers
    /\ \E header \in RequestHeaders, user \in {User(NilObjectID, n, GoodPassword, EmptyStr) : n \in {NameA, NameB}}, salt \in {"salt1"}, f \in FaultSeqs(3) :
          LET g == Gates("Register", boot.jwtservice, header, now)
              c == ControllerRegister(users, user, salt, NewObjectID(users), NewDocId(users),
                                      f[1], f[2], f[3])
          IN /\ users' = IF g.next THEN c.coll ELSE users
             /\ ghost' = IF g.next /\ Len(c.coll) > Len(users)
                          THEN Append(ghost, [plain |-> user.Password, size0 |-> Len(users),
                                              role |-> c.coll[Len(c.coll)].role])
                          ELSE ghost
             /\ route' = Served("Register", header, g, c, route.session)
    /\ UNCHANGED <<pc, local, call, now, tok, req, boot, tasks, tcall>>

ServeLogin ==
    /\ boot.phase = "serving"
    /\ \E header \in RequestHeaders, creds \in {Credentials(NameA, GoodPassword), Credentials(NameB, GoodPassword),
                                               Credentials(NameA, OtherPassword)}, fault \in StoreFaults :
          LET g == Gates("Login", boot.jwtservice, header, now)
              c == ControllerLogin(boot.jwtservice, users, creds, now, fault)
          IN route' = [Served("Login", header, g, c, route.session) EXCEPT
                          !.panic = g.next /\ c.status = StatusInternalServerError /\ fault = NoErr,
                          !.session = IF g.next /\ c.status = StatusOK THEN c.token ELSE @]
    /\ UNCHANGED <<users, ghost, pc, local, call, now, tok, req, boot, tasks, tcall>>

ServePromoteToAdmin ==
    /\ boot.phase = "serving"
    /\ \E header \in RequestHeaders, id \in {<<"z", "z">>, Hex(101), Hex(102)}, f \in FaultSeqs(2) :
          LET g == Gates("PromoteToAdmin", boot.jwtservice, header, now)
              c == ControllerPromoteToAdmin(users, id, f[1], f[2])
          IN /\ users' = IF g.next THEN c.coll ELSE users
             /\ route' = Served("PromoteToAdmin", header, g, c, route.session)
    /\ UNCHANGED <<ghost, pc, local, call, now, tok, req, boot, tasks, tcall>>

ServeCreateTask ==
    /\ boot.phase = "serving"
    /\ tasks.minted < MaxTasks
    /\ \E header \in RequestHeaders, fault \in StoreFaults :
          LET g == Gates("CreateTask", boot.jwtservice, header, now)
              n == tasks.minted + 1
              c == ControllerCreateTask(tasks.docs,
                                        Task(NilObjectID, <<"t">>, <<"d">>, Date(now + 1), StatusPending),
                                        now, 32 + n,
                                        160 + n, fault)
          IN /\ tasks' = IF g.next
                          THEN [docs |-> c.coll,
                                minted |-> IF c.storeCalls > 0 THEN n ELSE tasks.minted]
                          ELSE tasks
             /\ route' = Served("CreateTask", header, g, c, route.session)
    /\ UNCHANGED <<users, ghost, pc, local, call, now, tok, req, boot, tcall>>

ServeUpdateTask ==
    /\ boot.phase = "serving"
    /\ \E header \in RequestHeaders, id \in {<<"z", "z">>, Hex(161)}, fault \in StoreFaults :
          LET g == Gates("UpdateTask", boot.jwtservice, header, now)
              c == ControllerUpdateTask(tasks.docs, id, Task(NilObjectID, EmptyStr, EmptyStr, NoDate, StatusCompleted), now, fault)
          IN /\ tasks' = IF g.next THEN [tasks EXCEPT !.docs = c.coll] ELSE tasks
             /\ route' = Served("UpdateTask", header, g, c, route.session)
    /\ UNCHANGED <<users, ghost, pc, local, call, now, tok, req, boot, tcall>>

ServeDeleteTask ==
    /\ boot.phase = "serving"
    /\ \E header \in RequestHeaders, id \in {<<"z", "z">>, Hex(161)}, f \in FaultSeqs(2) :
          LET g == Gates("DeleteTask", boot.jwtservice, header, now)
              c == ControllerDeleteTask(tasks.docs, id, f[1], f[2])
          IN /\ tasks' = IF g.next THEN [tasks EXCEPT !.docs = c.coll] ELSE tasks
             /\ route' = Served("DeleteTask", header, g, c, route.session)
    /\ UNCHANGED <<users, ghost, pc, local, call, now, tok, req, boot, tcall>>

ServeGetAllTasks ==
    /\ boot.phase = "serving"
    /\ \E header \in RequestHeaders, fault \in StoreFaults :
          LET g == Gates("GetAllTasks", boot.jwtservice, header, now)
              c == ControllerGetAllTasks(tasks.docs, fault)
          IN route' = Served("GetAllTasks", header, g, c, route.session)
    /\ UNCHANGED <<users, ghost, pc, local, call, now, tok, req, boot, tasks, tcall>>

ServeGetTaskByID ==
    /\ boot.phase = "serving"
    /\ \E header \in RequestHeaders, id \in {<<"z", "z">>, Hex(161)}, fault \in StoreFaults :
          LET g == Gates("GetTaskByID", boot.jwtservice, header, now)
              c == ControllerGetTaskByID(tasks.docs, id, fault)
          IN route' = Served("GetTaskByID", header, g, c, route.session)
    /\ UNCHANGED <<users, ghost, pc, local, call, now, tok, req, boot, tasks, tcall>>

\* the admin gate behind a handler that sets the role (or nothing) in the context
AdminOnlyRequest ==
    /\ boot.phase = "serving"
    /\ \E ctx \in {NoContext} \cup
                  { [set |-> TRUE, userID |-> Absent, username |-> Absent, role |-> role] :
                      role \in {RoleAdmin, RoleUser, Absent, EmptyStr,
                                <<"A", "d", "m", "i", "n">>} } :
          LET a == AdminOnly(ctx)
          IN route' = [IdleRoute EXCEPT !.seen = TRUE, !.handler = "/admin", !.ctx = ctx,
                                        !.adminRan = TRUE, !.adminPassed = a.next,
                                        !.status = a.status, !.message = a.message,
                                        !.handlerRan = a.next, !.session = route.session]
    /\ UNCHANGED <<users, ghost, pc, local, call, now, tok, req, boot, tasks, tcall>>

NextRouter ==
    \/ MainStart
    \/ ServeRegister
    \/ ServeLogin
    \/ ServePromoteToAdmin
    \/ ServeCreateTask
    \/ ServeUpdateTask
    \/ ServeDeleteTask
    \/ ServeGetAllTasks
    \/ ServeGetTaskByID
    \/ AdminOnlyRequest

SpecRouter == InitMain /\ [][NextRouter]_vars

\* a client keeps the token its login returned, to present it later
KeepToken ==
    /\ boot.phase = "serving"
    /\ route.session.kind = "jwt"
    /\ tok' = [tok EXCEPT !.presented = route.session]
    /\ UNCHANGED <<users, ghost, pc, local, call, now, req, boot, route, tasks, tcall>>

\* the user routes, with clients that keep their tokens
NextSession ==
    \/ MainStart
    \/ ServeRegister
    \/ ServeLogin
    \/ ServePromoteToAdmin
    \/ KeepToken

SpecSession == InitMain /\ [][NextSession]_vars

(***************************************************************************)
(* The password service on its own: ghost logs the HashPassword calls,     *)
(* call holds the last CheckPassword call.                                 *)
(***************************************************************************)
PasswordInputs ==
    {EmptyStr, GoodPassword, OtherPassword, Pw(BcryptMaxLen), Pw(BcryptMaxLen + 1),
     GoodPassword \o <<"\\x00">> \o GoodPassword}

MalformedHashes == {EmptyStr, <<"not", "a", "real", "hash">>}

\* the salt is 16 random bytes: every call draws one no earlier call drew
HashPasswordCall ==
    /\ \E password \in PasswordInputs,
          salt \in Salts \ {ghost[i].salt : i \in 1..Len(ghost)} :
          LET r == HashPassword(password, salt)
          IN  ghost' = Append(ghost, [password |-> password, salt |-> salt,
                                      hash |-> r.hash, err |-> r.err])
    /\ UNCHANGED <<users, pc, local, call, now, tok, req, boot, route, tasks, tcall>>

CheckPasswordCall ==
    /\ \E hashed \in {ghost[i].hash : i \in 1..Len(ghost)} \cup MalformedHashes,
          plain \in PasswordInputs :
          call' = [op |-> "CheckPassword", hashed |-> hashed, plain |-> plain,
                   ok |-> CheckPassword(hashed, plain)]
    /\ UNCHANGED <<users, ghost, pc, local, now, tok, req, boot, route, tasks, tcall>>

NextPassword ==
    \/ HashPasswordCall
    \/ CheckPasswordCall

SpecPassword == Init /\ [][NextPassword]_vars

(***************************************************************************)
(* Properties.                                                             *)
(***************************************************************************)
Registered(username) == \E i \in 1..Len(users) : users[i].username = username

\* C1: when Register calls do not overlap, a successful Register persists its
\* user with role admin exactly when the store held no user when the call
\* ran; so the first registered user, and only that one, is created as admin
\* and every later one as user, whatever role the caller supplied.
C1_FirstRegisteredIsAdmin ==
    /\ Len(ghost) = Len(users)
    /\ \A i \in 1..Len(ghost) :
          /\ ghost[i].role \in {RoleAdmin, RoleUser}
          /\ ghost[i].role = RoleAdmin <=> ghost[i].size0 = 0
          /\ ghost[i].role = RoleAdmin <=> i = 1

C1_Witness ==
    /\ Len(users) >= 2
    /\ ghost[1].role = RoleAdmin /\ ghost[1].size0 = 0
    /\ ghost[2].role = RoleUser /\ ghost[2].size0 = 1

\* C2: after any interleaving of Register calls no two persisted users have
\* the same username and no persisted user has an empty username.
C2_UniqueUsernames ==
    /\ \A i, j \in 1..Len(users) : i # j => users[i].username # users[j].username
    /\ \A i \in 1..Len(users) : users[i].username # EmptyStr

\* a step in which a Register call has done its lookup of the username
RegisterLookupStep ==
    /\ call'.op = "Register" /\ call'.stage = "lookup"
    /\ call' # call \/ pc' # pc

RejectedAsExisting ==
    /\ call'.done /\ call'.err = ErrUserExists
    /\ call'.hashCalls = 0 /\ call'.createCalls = 0
    /\ users' = users /\ pc' = pc

\* C3 as stated: Register with a username for which a user is already persisted
\* returns UserExists without hashing or creating, and the store is unchanged.
C3_ExistingUsernameRejected ==
    [][(RegisterLookupStep /\ Registered(call'.arg.Username)) => RejectedAsExisting]_vars

\* C3 amended: Register with a password of at least 8 characters and a username
\* for which a user is already persisted returns UserExists when the store
\* answers the lookup; in that call neither the hashing service nor the
\* store's create step is invoked, and the store is unchanged.
C3_ValidInputExistingUsernameRejected ==
    [][(/\ RegisterLookupStep
        /\ Registered(call'.arg.Username)
        /\ Len(call'.arg.Password) >= MinPasswordLen
        /\ call'.fault = NoErr) => RejectedAsExisting]_vars

C3_Witness ==
    /\ call.op = "Register" /\ call.stage = "lookup" /\ call.done
    /\ Registered(call.arg.Username)
    /\ Len(call.arg.Password) > BcryptMaxLen
    /\ call.fault = NoErr
    /\ call.err = ErrUserExists /\ call.hashCalls = 0

\* C4: the password stored for each persisted user is an output of the hashing
\* service for the password submitted at registration, never that plaintext.
C4_StoredPasswordIsHash ==
    /\ Len(ghost) = Len(users)
    /\ \A i \in 1..Len(users) :
          /\ \E salt \in Salts :
                /\ HashPassword(ghost[i].plain, salt).err = NoErr
                /\ users[i].password = HashPassword(ghost[i].plain, salt).hash
          /\ users[i].password # ghost[i].plain

C4_Witness ==
    /\ Len(users) = MaxUsers
    /\ \E i, j \in 1..Len(users) : users[i].password # users[j].password

\* the password a persisted user registered with differs from the one supplied
WrongPasswordFor(username, password) ==
    \E i \in 1..Len(users) : users[i].username = username /\ ghost[i].plain # password

InvalidCredentialsOutcome ==
    [token |-> EmptyTokenStr, user |-> NilUser, err |-> ErrInvalidCredentials]

LoginOutcome == [token |-> call.token, user |-> call.view, err |-> call.err]

C6_LoginTokenAndView ==
    (call.op = "Login" /\ call.done /\ call.err = NoErr) =>
        \E i \in 1..Len(users) :
            /\ users[i].username = call.arg.Username
            /\ \A j \in 1..(i - 1) : users[j].username # call.arg.Username
            /\ call.token.kind = "jwt"
            /\ call.token.alg = "HS256"
            /\ call.token.sig = Sign("HS256", Secret, call.token.claims)
            /\ call.token.claims.userId = Hex(users[i].id)
            /\ call.token.claims.username = users[i].username
            /\ call.token.claims.role = users[i].role
            /\ call.view = User(users[i].id, users[i].username, EmptyStr, users[i].role)

\* a user registered with role user, promoted since, has logged in
C6_Witness ==
    /\ call.op = "Login" /\ call.done /\ call.err = NoErr
    /\ call.view.Role = RoleAdmin
    /\ \E i \in 1..Len(users) :
          users[i].username = call.arg.Username /\ ghost[i].role = RoleUser

IssuedAndVerifiedAtOnce ==
    /\ tok.phase = "verified" /\ tok.origin = "issued"
    /\ tok.verifiedAt = tok.issuedAt
    /\ tok.args.userID # EmptyStr /\ tok.args.username # EmptyStr /\ tok.args.role # EmptyStr

VerifiedClaimsAreArgs ==
    /\ tok.gen.err = NoErr
    /\ tok.res.err = NoErr /\ ~tok.res.token.isNil
    /\ tok.res.token.Claims.userId = tok.args.userID
    /\ tok.res.token.Claims.username = tok.args.username
    /\ tok.res.token.Claims.role = tok.args.role

\* C7 as stated: for all non-empty userID, username and role, verifying a token
\* just issued succeeds and returns exactly that userID, username and role.
C7_RoundTrip == IssuedAndVerifiedAtOnce => VerifiedClaimsAreArgs

\* C7 amended: for all non-empty userID, username and role that are valid UTF-8,
\* verifying a token just issued by the same Token Service succeeds and the
\* returned claims contain exactly that userID, username and role.
C7_RoundTripValidUTF8 ==
    (/\ IssuedAndVerifiedAtOnce
     /\ ValidUTF8(tok.args.userID) /\ ValidUTF8(tok.args.username) /\ ValidUTF8(tok.args.role))
        => VerifiedClaimsAreArgs

C7_Witness ==
    /\ IssuedAndVerifiedAtOnce
    /\ tok.args.role = RoleAdmin
    /\ tok.res.err = NoErr
    /\ tok.res.token.Claims.userId = Hex(1)

CorrectlySigned(t) ==
    /\ t.kind = "jwt"
    /\ t.alg \in HMACAlgs
    /\ t.sig = Sign(t.alg, Secret, t.claims)

\* C8: an issued token carries exp = issuance + 24h; a correctly signed token
\* is accepted when the clock at verification has not passed its exp and is
\* rejected with the expiry error at every later time.
C8_ExpiryAtVerification ==
    /\ (tok.origin = "issued" /\ tok.gen.err = NoErr)
          => tok.presented.claims.exp = NumExp(tok.issuedAt + TokenTTL)
    /\ (tok.phase = "verified" /\ CorrectlySigned(tok.presented)
           /\ tok.presented.claims.exp.k = "num")
          => IF tok.verifiedAt <= tok.presented.claims.exp.v
             THEN tok.res.err = NoErr /\ ~tok.res.token.isNil
             ELSE tok.res.err = ErrTokenExpired /\ tok.res.token.isNil

\* an issued token that verified earlier is now rejected as expired
C8_Witness ==
    /\ tok.phase = "verified" /\ tok.origin = "issued"
    /\ tok.okBefore
    /\ tok.verifiedAt > tok.issuedAt + TokenTTL
    /\ tok.res.err = ErrTokenExpired

ForeignSignature(t) ==
    /\ t.kind = "jwt"
    /\ t.alg \notin HMACAlgs \/ t.sig.key # Secret

\* C9 as stated: a token signed with another key or with a non-HMAC algorithm is
\* never accepted; it is rejected with the signature-invalid error and no claims.
C9_ForeignSignatureInvalid ==
    (tok.phase = "verified" /\ ForeignSignature(tok.presented))
        => tok.res.token.isNil /\ tok.res.err = ErrSignatureInvalid

\* C9 amended: VerifyToken never accepts a token signed with a key other than
\* the service's secret or with a non-HMAC signing algorithm and returns no
\* claims for it; the error is the signature-invalid error when the token names
\* a signing method the JWT library knows, and the library's
\* unavailable-signing-method error otherwise.
C9_ForeignSignatureRejected ==
    (tok.phase = "verified" /\ ForeignSignature(tok.presented))
        => /\ tok.res.token.isNil
           /\ tok.res.err = IF tok.presented.alg \in RegisteredAlgs
                             THEN ErrSignatureInvalid ELSE ErrAlgUnavailable

\* a token signed with the service's secret but under an RSA method was rejected
C9_Witness ==
    /\ tok.phase = "verified"
    /\ tok.presented.kind = "jwt" /\ tok.presented.alg = "RS256"
    /\ tok.presented.sig.key = Secret
    /\ tok.res.err = ErrSignatureInvalid /\ tok.res.token.isNil

\* C10: the handler behind the authentication gate runs only for a non-empty
\* Authorization value that the Token Service verifies as valid; a missing
\* value gets 401 "authorization header required", a verification error or an
\* invalid-marked token gets 401 "invalid token", and the handler does not run.
C10_AuthGate ==
    req.seen =>
      /\ req.svc = "real" => req.vres = ValidateToken(req.header, req.at, req.at)
      /\ req.handlerRan =>
            /\ req.header.kind # "empty"
            /\ req.vres.err = NoErr /\ ~req.vres.token.isNil /\ req.vres.token.Valid
      /\ req.header.kind = "empty" =>
            /\ req.status = StatusUnauthorized
            /\ req.message = "authorization header required"
            /\ ~req.handlerRan
      /\ (req.header.kind # "empty" /\ (req.vres.err # NoErr \/ ~req.vres.token.Valid)) =>
            /\ req.status = StatusUnauthorized
            /\ req.message = "invalid token"
            /\ ~req.handlerRan

\* a token without error but marked invalid was turned away
C10_Witness ==
    /\ req.seen /\ req.header.kind = "jwt"
    /\ req.vres.err = NoErr /\ ~req.vres.token.isNil /\ ~req.vres.token.Valid
    /\ req.status = StatusUnauthorized /\ req.message = "invalid token" /\ ~req.handlerRan

\* the token the Token Service issued is presented to the gate, backed by the
\* Token Service itself, and the gate lets the request through
IssuedTokenAdmitted ==
    /\ req.seen /\ req.svc = "real" /\ req.handlerRan
    /\ tok.origin = "issued" /\ tok.gen.err = NoErr
    /\ req.header = tok.gen.token

\* C11: for every token issued for (userID, username, role) and presented to
\* the authentication gate while valid, the userID, username and role the
\* gate attaches to the request context are the ones the token was issued
\* with.
C11_ContextCarriesIssuedIdentity ==
    IssuedTokenAdmitted =>
        /\ req.ctx.set
        /\ req.ctx.userID = tok.args.userID
        /\ req.ctx.username = tok.args.username
        /\ req.ctx.role = tok.args.role

\* C12: the admin gate lets a request proceed exactly when a role is attached
\* to the request context and it is admin; otherwise it answers 403 with the
\* message "admin access required" and the downstream handler never runs.
C12_AdminGate ==
    route.adminRan =>
        /\ route.adminPassed <=> (route.ctx.set /\ route.ctx.role = RoleAdmin)
        /\ route.adminPassed => route.handlerRan
        /\ ~route.adminPassed =>
              /\ route.status = StatusForbidden
              /\ route.message = "admin access required"
              /\ ~route.handlerRan /\ ~route.invoked

\* a logged-in user whose token carries role user was turned away from the
\* promote route
C12_Witness ==
    /\ route.handler = "PromoteToAdmin" /\ route.header = route.session
    /\ route.authPassed /\ route.adminRan /\ ~route.adminPassed
    /\ route.ctx.role = RoleUser
    /\ route.status = StatusForbidden /\ ~route.handlerRan

AdminRoutes == {"CreateTask", "UpdateTask", "DeleteTask", "PromoteToAdmin"}
AuthRoutes == {"GetAllTasks", "GetTaskByID"}
PublicRoutes == {"Register", "Login"}

\* the header of the last request is a token the Token Service verifies as valid
ValidTokenPresented ==
    /\ ~boot.jwtservice.isNil
    /\ ValidateToken(route.header, now, now).err = NoErr
    /\ ValidateToken(route.header, now, now).token.Valid

\* C13: through the configured router the task create, update and delete
\* operations and PromoteToAdmin run only for requests with a valid token whose
\* role is admin, GetAllTasks and GetTaskByID only for requests with a valid
\* token, and Register and Login run whatever the Authorization header is.
C13_RouteGates ==
    /\ (route.handlerRan /\ route.handler \in AdminRoutes) =>
          /\ ValidTokenPresented
          /\ ValidateToken(route.header, now, now).token.Claims.role = RoleAdmin
          /\ route.authPassed /\ route.adminPassed
    /\ (route.handlerRan /\ route.handler \in AuthRoutes) =>
          ValidTokenPresented /\ route.authPassed
    /\ (route.seen /\ route.handler \in PublicRoutes) => route.handlerRan
    /\ route.invoked => route.handlerRan

\* an admin has promoted a user, after a user was registered without any token
C13_Witness ==
    /\ route.handler = "PromoteToAdmin" /\ route.invoked /\ route.status = StatusOK
    /\ Len(users) = 2 /\ users[2].role = RoleAdmin /\ ghost[2].role = RoleUser

\* C14: when the signing secret is absent the process stops at startup: it
\* never serves requests, so no request is ever answered without a secret.
C14_MissingSecretStopsStartup ==
    boot.env = NoSecret => (boot.phase # "serving" /\ ~route.seen)

\* a step in which PromoteToAdmin was called and the store answered every query
PromoteStep ==
    /\ \E p \in Procs : PromoteCall(p)
    /\ call'.fault = NoErr

\* the persisted users whose ID is the one the call names
UsersWithID(coll, userID) == {i \in 1..Len(coll) : Hex(coll[i].id) = userID}

\* C15: PromoteToAdmin on an existing user returns no error and sets that
\* user's role to admin whatever it was, no other user and no other field
\* changes, and a second application leaves the store as the first left it.
C15_PromoteExistingUser ==
    [][(PromoteStep /\ UsersWithID(users, call'.idArg) # {}) =>
          /\ call'.err = NoErr
          /\ Len(users') = Len(users)
          /\ \A i \in 1..Len(users) :
                users'[i] = IF i \in UsersWithID(users, call'.idArg)
                            THEN [users[i] EXCEPT !.role = RoleAdmin]
                            ELSE users[i]
          /\ PromoteToAdmin(users', call'.idArg, NoErr, NoErr).coll = users'
          /\ PromoteToAdmin(users', call'.idArg, NoErr, NoErr).err = NoErr]_vars

\* C16: PromoteToAdmin fails for an empty id and with InvalidUserID for a
\* malformed id, both without querying the store, and with UserNotFound and
\* without the role update when no user has the id; no failure changes a role.
C16_PromoteFailures ==
    [][(\E p \in Procs : PromoteCall(p)) =>
          /\ call'.idArg = EmptyStr => (call'.err # NoErr /\ call'.storeCalls = 0)
          /\ (call'.idArg # EmptyStr /\ ObjectIDFromHex(call'.idArg).err # NoErr) =>
                (call'.err = ErrInvalidUserID /\ call'.storeCalls = 0)
          /\ ( /\ call'.idArg # EmptyStr
               /\ ObjectIDFromHex(call'.idArg).err = NoErr
               /\ call'.fault = NoErr
               /\ UsersWithID(users, call'.idArg) = {} ) =>
                (call'.err = ErrUserNotFound /\ call'.storeCalls = 1)
          /\ call'.err # NoErr => users' = users]_vars

\* the number of characters of a string
CharLen(s) == Len(s)

\* C17: Register fails without hashing and without any store operation when the
\* username is empty, the password is empty or the password is shorter than 8
\* characters; a password of exactly 8 characters passes this validation.
C17_RegisterValidation ==
    [][RegisterLookupStep =>
          /\ ( \/ call'.arg.Username = EmptyStr
               \/ call'.arg.Password = EmptyStr
               \/ CharLen(call'.arg.Password) < MinPasswordLen ) =>
                /\ call'.done /\ call'.err # NoErr
                /\ call'.hashCalls = 0 /\ call'.storeCalls = 0
                /\ users' = users
          /\ (call'.arg.Username # EmptyStr /\ CharLen(call'.arg.Password) = MinPasswordLen) =>
                call'.storeCalls >= 1]_vars

\* the last call is a CreateTask or an UpdateTask that reached the due-date
\* validation with a due date supplied
DueDateValidated ==
    \/ /\ tcall.op = "CreateTask"
       /\ tcall.arg.Title # EmptyStr /\ tcall.arg.Description # EmptyStr
       /\ ~tcall.arg.DueDate.zero
    \/ /\ tcall.op = "UpdateTask"
       /\ tcall.idArg # EmptyStr
       /\ tcall.arg.Status = EmptyStr \/ tcall.arg.Status \in validStatuses
       /\ ~tcall.arg.DueDate.zero

\* C18: CreateTask, and UpdateTask when a due date is supplied, reject every
\* due date that is not strictly after the current instant, a due date equal
\* to the current instant included, with the future-date error and without
\* calling the store.
C18_DueDateStrictlyFuture ==
    (DueDateValidated /\ tcall.arg.DueDate.at <= tcall.at) =>
        (tcall.err = ErrFutureDate /\ tcall.storeCalls = 0)

\* the last call is a CreateTask with a title, a description, a due date in
\* the future and no status
CreateWithoutStatus ==
    /\ tcall.op = "CreateTask"
    /\ tcall.arg.Title # EmptyStr /\ tcall.arg.Description # EmptyStr
    /\ ~tcall.arg.DueDate.zero /\ tcall.arg.DueDate.at > tcall.at
    /\ tcall.arg.Status = EmptyStr

\* C19 as stated: CreateTask with a non-empty title, a non-empty description, a
\* due date in the future and no status succeeds, and the task handed to the
\* store has status pending.
C19_DefaultsToPendingAndSucceeds ==
    CreateWithoutStatus =>
        /\ tcall.err = NoErr
        /\ tcall.storeCalls = 1 /\ tcall.handed.Status = StatusPending

\* C19: CreateTask with a non-empty title, a non-empty description, a due date
\* in the future and no status hands the store a task with status pending, and
\* succeeds, returning a task with status pending, when the store's create
\* succeeds.
C19_DefaultsToPending ==
    CreateWithoutStatus =>
        /\ tcall.storeCalls = 1 /\ tcall.handed.Status = StatusPending
        /\ tcall.fault = NoErr =>
              /\ tcall.err = NoErr
              /\ ~tcall.task.isNil /\ tcall.task.Status = StatusPending
        /\ tcall.fault # NoErr => tcall.err = tcall.fault

\* a task created without a status is persisted as pending
C19_Witness ==
    /\ CreateWithoutStatus /\ tcall.err = NoErr
    /\ tcall.handed.Status = StatusPending
    /\ \E i \in 1..Len(tasks.docs) :
          tasks.docs[i].id = tcall.task.ID /\ tasks.docs[i].status = StatusPending

\* C20: after any sequence of CreateTask, UpdateTask and DeleteTask calls every
\* persisted task has a status that is one of pending, in_progress, completed.
C20_PersistedStatusValid ==
    \A i \in 1..Len(tasks.docs) :
        /\ tasks.docs[i].status \in validStatuses
        /\ DecodeTask(tasks.docs[i]).Status \in validStatuses

\* a stored task was updated to completed after calls with the status "done"
\* were refused, and another task is stored beside it
C20_Witness ==
    /\ tcall.op = "UpdateTask" /\ tcall.err = NoErr
    /\ tcall.arg.Status = StatusCompleted
    /\ Len(tasks.docs) = 2
    /\ \E i \in 1..Len(tasks.docs) :
          Hex(tasks.docs[i].docId) = tcall.idArg /\ tasks.docs[i].status = StatusCompleted

\* a step in which UpdateTask was called and returned
UpdateTaskStep == tcall'.op = "UpdateTask"

\* an update that supplies the status completed and nothing else
OnlyStatusCompleted == Task(NilObjectID, EmptyStr, EmptyStr, NoDate, StatusCompleted)

\* the last call is an UpdateTask with a non-empty id and an update in which
\* title, description, due date and status are all empty or zero
UpdateWithoutFields ==
    /\ tcall.op = "UpdateTask" /\ tcall.idArg # EmptyStr
    /\ tcall.arg.Title = EmptyStr /\ tcall.arg.Description = EmptyStr
    /\ tcall.arg.DueDate.zero /\ tcall.arg.Status = EmptyStr

\* the last call is an UpdateTask with a non-empty id and a status that is
\* none of the three valid values
UpdateWithInvalidStatus ==
    /\ tcall.op = "UpdateTask" /\ tcall.idArg # EmptyStr
    /\ tcall.arg.Status # EmptyStr /\ tcall.arg.Status \notin validStatuses

\* C21 as stated: UpdateTask with a non-empty id fails with NoFieldsProvided
\* when every field of the update is empty or zero and with the invalid-status
\* error when the supplied status is not valid, without calling the store; with
\* only status completed supplied it delegates to the store and succeeds.
C21_UpdateValidationAndSuccess ==
    /\ UpdateWithoutFields =>
          (tcall.err = "no valid fields provided for update" /\ tcall.storeCalls = 0)
    /\ UpdateWithInvalidStatus =>
          (tcall.err = "invalid task status" /\ tcall.storeCalls = 0)
    /\ (tcall.op = "UpdateTask" /\ tcall.idArg # EmptyStr /\ tcall.arg = OnlyStatusCompleted) =>
          (tcall.storeCalls = 1 /\ tcall.err = NoErr)

\* C21: UpdateTask with a non-empty id fails with NoFieldsProvided when every
\* field of the update is empty or zero and with the invalid-status error when
\* the supplied status is not valid, without calling the store and leaving the
\* stored tasks as they were; with only status completed supplied it hands
\* that update to the store and returns what the store returns, so it
\* succeeds exactly when the store's update succeeds.
C21_UpdateValidation ==
    [][UpdateTaskStep =>
          /\ UpdateWithoutFields' =>
                /\ tcall'.err = "no valid fields provided for update"
                /\ tcall'.storeCalls = 0 /\ tasks' = tasks
          /\ UpdateWithInvalidStatus' =>
                /\ tcall'.err = "invalid task status"
                /\ tcall'.storeCalls = 0 /\ tasks' = tasks
          /\ (tcall'.idArg # EmptyStr /\ tcall'.arg = OnlyStatusCompleted) =>
                /\ tcall'.storeCalls = 1 /\ tcall'.handed = OnlyStatusCompleted
                /\ tcall'.err =
                      RepoUpdateTask(tasks.docs, tcall'.idArg, tcall'.arg, tcall'.fault).err]_vars

\* a stored pending task was updated with only the status completed
C21_Witness ==
    /\ tcall.op = "UpdateTask" /\ tcall.arg = OnlyStatusCompleted
    /\ tcall.err = NoErr /\ tcall.storeCalls = 1
    /\ ~tcall.task.isNil /\ tcall.task.Status = StatusCompleted

\* the position in the store of the document an id names (0 when there is none)
Stored(coll, id) == FindOne(coll, "docId", ObjectIDFromHex(id).id)

\* the value a field has after a partial update: the supplied one, or the old one
Merged(supplied, empty, old) == IF supplied = empty THEN old ELSE supplied

\* C22: a successful UpdateTask overwrites exactly the fields of the stored
\* task that are non-empty or non-zero in the update; the omitted fields, the
\* task's id and all other tasks keep their previous values.
C22_PartialUpdate ==
    [][(UpdateTaskStep /\ tcall'.err = NoErr) =>
          LET i == Stored(tasks.docs, tcall'.idArg)
              old == DecodeTask(tasks.docs[i])
              new == DecodeTask(tasks'.docs[i])
              u == tcall'.arg
          IN /\ i # 0 /\ Len(tasks'.docs) = Len(tasks.docs)
             /\ new.ID = old.ID /\ tasks'.docs[i].docId = tasks.docs[i].docId
             /\ new.Title = Merged(u.Title, EmptyStr, old.Title)
             /\ new.Description = Merged(u.Description, EmptyStr, old.Description)
             /\ new.DueDate = Merged(u.DueDate, NoDate, old.DueDate)
             /\ new.Status = Merged(u.Status, EmptyStr, old.Status)
             /\ \A j \in 1..Len(tasks.docs) : j # i => tasks'.docs[j] = tasks.docs[j]]_vars

\* a step in which DeleteTask was called and returned
DeleteTaskStep == tcall'.op = "DeleteTask"

\* the collection without the document at position i
Without(coll, i) == [j \in 1..(Len(coll) - 1) |-> IF j < i THEN coll[j] ELSE coll[j + 1]]

\* C23: DeleteTask fails without any store call for an empty id; when the
\* lookup reports TaskNotFound or another error it returns that error without
\* invoking the delete and the stored tasks are unchanged; tasks change only
\* when the lookup found the task, and then exactly that task is removed.
C23_DeleteConfirmsExistence ==
    [][DeleteTaskStep =>
          LET lookup == RepoGetTaskByID(tasks.docs, tcall'.idArg, tcall'.fault)
              i == Stored(tasks.docs, tcall'.idArg)
          IN /\ tcall'.idArg = EmptyStr =>
                   (tcall'.err # NoErr /\ tcall'.storeCalls = 0 /\ tasks' = tasks)
             /\ (tcall'.idArg # EmptyStr /\ lookup.err # NoErr) =>
                   (tcall'.err = lookup.err /\ tcall'.storeCalls = 1 /\ tasks' = tasks)
             /\ (tcall'.idArg # EmptyStr /\ lookup.err = NoErr) =>
                   /\ tcall'.storeCalls = 2 /\ i # 0
                   /\ tcall'.err = NoErr => tasks'.docs = Without(tasks.docs, i)
                   /\ tcall'.err # NoErr => tasks' = tasks
             /\ tasks' # tasks => (lookup.err = NoErr /\ tcall'.err = NoErr)]_vars

\* one of two stored tasks was deleted and the other one is still stored
C23_Witness ==
    /\ tcall.op = "DeleteTask" /\ tcall.err = NoErr /\ tcall.storeCalls = 2
    /\ Len(tasks.docs) = 1 /\ tasks.minted = 2
    /\ Stored(tasks.docs, tcall.idArg) = 0

\* the successful HashPassword calls whose hash a CheckPassword call was given
HashedBy(hashed) == {i \in 1..Len(ghost) : ghost[i].err = NoErr /\ ghost[i].hash = hashed}

\* C24: for every password of at most 72 bytes (the empty one included)
\* HashPassword succeeds; CheckPassword on a hash returned for p is true for p
\* and false for every other password; two HashPassword calls on one password
\* return different hashes, each of which verifies; CheckPassword on a
\* malformed hash is false.
C24_HashVerify ==
    /\ \A i \in 1..Len(ghost) :
          ByteLen(ghost[i].password) <= BcryptMaxLen => ghost[i].err = NoErr
    /\ \A i, j \in 1..Len(ghost) :
          (i # j /\ ghost[i].password = ghost[j].password
                 /\ ghost[i].err = NoErr /\ ghost[j].err = NoErr)
             => ghost[i].hash # ghost[j].hash
    /\ call.op = "CheckPassword" =>
          /\ \A i \in HashedBy(call.hashed) : call.ok <=> (call.plain = ghost[i].password)
          /\ call.hashed \in MalformedHashes => ~call.ok

\* C25: Register calls for different usernames that interleave on an empty
\* store can each read a user count of zero before any of them creates its
\* user; every user created by a call that read zero is persisted with role
\* admin, so two admins are created by Register alone.
C25_CountZeroMakesAdmin ==
    /\ Len(ghost) = Len(users)
    /\ \A i \in 1..Len(users) : ghost[i].size0 = 0 => users[i].role = RoleAdmin

C25_Witness ==
    /\ Len(users) >= 2
    /\ users[1].username # users[2].username
    /\ ghost[1].size0 = 0 /\ ghost[2].size0 = 0
    /\ users[1].role = RoleAdmin /\ users[2].role = RoleAdmin

\* Two racing Register calls on a store holding coll, as a value: the
\* collection and, for each call, the store access it is about to make and the
\* user it holds.
RaceStart(coll) ==
    { [coll |-> coll, at |-> [p \in Procs |-> [stage |-> "lookup", user |-> input[p]]]] :
        input \in [Procs -> RegisterInputs] }

\* the states one store access of one of the calls leads to
RaceSucc(s) ==
    UNION { LET l == s.at[p]
            IN  IF l.stage = "lookup"
                THEN { LET r == RegisterPrepare(s.coll, l.user, salt, NoErr)
                       IN  [s EXCEPT !.at[p] = [stage |-> IF r.err = NoErr THEN "count" ELSE "done",
                                                user |-> r.user]] : salt \in Salts }
                ELSE IF l.stage = "count"
                THEN { [s EXCEPT !.at[p] =
                          [stage |-> "create",
                           user |-> RegisterRole(l.user, GetUserCount(s.coll, NoErr).count)]] }
                ELSE IF l.stage = "create"
                THEN { [coll |-> CreateUser(s.coll, l.user, NewObjectID(s.coll),
                                            NewDocId(s.coll), NoErr).coll,
                        at |-> [s.at EXCEPT ![p] = [stage |-> "done", user |-> l.user]]] }
                ELSE {} : p \in Procs }

\* the states reached from S in at most n store accesses
RECURSIVE RaceReach(_, _)
RaceReach(S, n) ==
    IF n = 0 THEN S ELSE RaceReach(S \cup UNION {RaceSucc(s) : s \in S}, n - 1)

\* every interleaving of the two calls: three store accesses each
RaceOutcomes(coll) == RaceReach(RaceStart(coll), 2 * 3)

NoAdminAmong(coll) == \A i \in 1..Len(coll) : coll[i].role # RoleAdmin

\* C26 as stated: from the store as it is (at first, empty), some interleaving
\* of concurrent Register calls, each reading the user count and then creating
\* its user, ends with at least one user persisted and no persisted user
\* having role admin.
C26_RaceYieldsZeroAdmins ==
    \E s \in RaceOutcomes(users) : Len(s.coll) >= 1 /\ NoAdminAmong(s.coll)

\* C26: no interleaving of Register calls yields zero admins: once a user
\* is persisted, the user persisted first has role admin.
C26_FirstPersistedIsAdmin ==
    Len(users) >= 1 => users[1].role = RoleAdmin /\ ~NoAdminAmong(users)

\* a call that read its count before the latest user was created is still to
\* create its own, after two racing calls have created theirs
C26_Witness ==
    /\ Len(users) = 2
    /\ users[2].role = RoleUser
    /\ \E p \in Procs : pc[p] = "create" /\ local[p].size0 < Len(users)

\* C27: the role Register persists depends only on the user count the call
\* read: admin when it read zero and user otherwise, whatever role the caller
\* supplied in the registration input.
C27_RoleFromCountOnly ==
    /\ Len(ghost) = Len(users)
    /\ \A i \in 1..Len(users) :
          users[i].role = IF ghost[i].size0 = 0 THEN RoleAdmin ELSE RoleUser

\* a registration that supplied role admin and read a count above zero
C27_Witness ==
    /\ call.op = "Register" /\ call.stage = "create" /\ call.err = NoErr
    /\ call.arg.Role = RoleAdmin
    /\ Len(users) >= 2
    /\ users[Len(users)].username = call.arg.Username
    /\ ghost[Len(users)].size0 > 0
    /\ users[Len(users)].role = RoleUser

\* C28: across Register, Login and PromoteToAdmin calls a persisted user is
\* never removed, its id and username never change, its role changes only
\* from user to admin and only in a PromoteToAdmin call, an admin stays admin,
\* and a Login call leaves the store as it was.
C28_UserLifecycle ==
    [][/\ Len(users') >= Len(users)
       /\ \A i \in 1..Len(users) :
             /\ users'[i].docId = users[i].docId
             /\ users'[i].id = users[i].id
             /\ users'[i].username = users[i].username
             /\ users'[i].role # users[i].role =>
                   /\ users[i].role = RoleUser /\ users'[i].role = RoleAdmin
                   /\ call'.op = "PromoteToAdmin"
             /\ users[i].role = RoleAdmin => users'[i].role = RoleAdmin
       /\ call'.op = "Login" => users' = users]_vars

\* a user registered as user has been promoted, and a Login has then succeeded
C28_Witness ==
    /\ Len(users) = 2
    /\ \E i \in 1..Len(users) : ghost[i].role = RoleUser /\ users[i].role = RoleAdmin
    /\ call.op = "Login" /\ call.err = NoErr

\* the stored role of the user a token names
StoredRoleOf(token) ==
    {users[i].role : i \in {j \in 1..Len(users) : users[j].username = token.claims.username}}

\* C29: the admin gate decides from the role in the presented token, not from
\* the stored role: on an admin route a valid token passes the gate exactly
\* when its role claim is admin, and is otherwise answered 403 without the
\* handler running, also when the stored role of its user is admin by now; a
\* token issued by Login carries the role stored at that login.
C29_GateUsesTokenRole ==
    /\ (route.handler = "PromoteToAdmin" /\ route.authPassed) =>
          /\ route.adminRan
          /\ route.adminPassed <=> route.header.claims.role = RoleAdmin
          /\ ~route.adminPassed => (route.status = StatusForbidden /\ ~route.handlerRan)
    /\ (route.handler = "Login" /\ route.status = StatusOK) =>
          StoredRoleOf(route.session) = {route.session.claims.role}

\* the token kept from a login as user is refused after its user's promotion
C29_Witness ==
    /\ route.handler = "PromoteToAdmin"
    /\ route.header = tok.presented
    /\ route.header.claims.role = RoleUser
    /\ StoredRoleOf(route.header) = {RoleAdmin}
    /\ route.authPassed /\ route.status = StatusForbidden

\* the call of p returns from its delete in this step
DeleteReturns(p) == pc[p] = "delete" /\ pc'[p] = "idle"

====
